---------------------------- MODULE Spec2Model ----------------------------
(*
  A model of the umbra conversation engine (jazzz/umbra): the client
  orchestrator of umbra-sdk/src/client.rs (registry, invite handshake,
  receive loop, dispatch), the two conversation variants it registers
  (Private, Inbox), the stand-alone PrivateConversation of
  umbra-sdk/src/convos/private.rs, and the layered wire encoding.

  Strings are sequences of one-character strings, so that sort() and join()
  are computed as the code computes them.  Encoded bytes are records
  [kind, rev, val]: `kind` names the message type the bytes encode, `val` is
  the encoded value and `rev` says whether the byte order is reversed (the
  placeholder cipher).  Decoding bytes as a type succeeds exactly when the
  bytes encode that type and are not reversed.
*)
EXTENDS Naturals, Sequences, FiniteSets, TLC

(* ------------------------------ bounds ---------------------------------- *)
MaxStart == 2      \* start() calls, all clients together
MaxCreate == 2     \* create_conversation calls, all clients together
MaxHandlers == 1   \* content handlers registered, all clients together
MaxSends == 1      \* conversation sends, all clients together
MaxFaults == 1     \* transport faults (inject, duplicate, drop, reorder, failures)
MaxDispatchHandlers == 2   \* content handlers registered under SpecDispatch

(* ------------------------------ strings --------------------------------- *)
\* Byte values of the characters used in addresses (String's Ord is bytewise).
CharCode(ch) ==
    CASE ch = "a" -> 97
      [] ch = "b" -> 98
      [] ch = "c" -> 99
      [] ch = "|" -> 124

RECURSIVE StrLess(_, _)
\* x < y for Rust Strings: lexicographic on bytes, a proper prefix is smaller.
StrLess(x, y) ==
    IF y = <<>> THEN FALSE
    ELSE IF x = <<>> THEN TRUE
    ELSE IF Head(x) = Head(y) THEN StrLess(Tail(x), Tail(y))
    ELSE CharCode(Head(x)) < CharCode(Head(y))

RECURSIVE InsertSorted(_, _)
InsertSorted(x, s) ==
    IF s = <<>> THEN <<x>>
    ELSE IF StrLess(x, Head(s)) THEN <<x>> \o s
    ELSE <<Head(s)>> \o InsertSorted(x, Tail(s))

RECURSIVE SortStrings(_)
\* Vec<String>::sort(): ascending, stable.
SortStrings(s) ==
    IF s = <<>> THEN <<>>
    ELSE LET n == Len(s) IN InsertSorted(s[n], SortStrings(SubSeq(s, 1, n - 1)))

RECURSIVE Join(_, _)
\* [String]::join(sep)
Join(s, sep) ==
    IF s = <<>> THEN <<>>
    ELSE IF Len(s) = 1 THEN s[1]
    ELSE s[1] \o sep \o Join(Tail(s), sep)

PrivatePrefix == <<"/", "p", "r", "i", "v", "a", "t", "e", "/">>
InboxPrefix == <<"/", "i", "n", "b", "o", "x", "/">>

\* The mutant of topic_private_convo: the id is put in the inbox namespace.
topic_private_convo_in_inbox(addrs) == InboxPrefix \o Join(SortStrings(addrs), <<"|">>)

\* The mutant of topic_private_convo: the sort is forgotten.
topic_private_convo_unsorted(addrs) == PrivatePrefix \o Join(addrs, <<"|">>)

topic_private_convo(addrs) == PrivatePrefix \o Join(SortStrings(addrs), <<"|">>)

topic_inbox_convo(addr) == InboxPrefix \o addr

(* ------------------------------ results --------------------------------- *)
None == [t |-> "None"]
Some(v) == [t |-> "Some", v |-> v]
Ok(v) == [ok |-> TRUE, val |-> v]
Err(e) == [ok |-> FALSE, err |-> e]

(* ------------------------------ wire codec ------------------------------ *)
\* prost's encode_to_vec of a message of type `kind`.
Encode(kind, v) == [kind |-> kind, rev |-> FALSE, val |-> v]

\* Bytes that encode no message at all.
Garbage == [kind |-> "Garbage", rev |-> FALSE, val |-> <<>>]

\* prost's T::decode(bytes), mapped to UmbraError::DecodingError on failure.
Decode(kind, b) ==
    IF b.kind = kind /\ ~b.rev THEN Ok(b.val) ELSE Err("DecodingError")

encrypt_reverse(buf) == [buf EXCEPT !.rev = ~buf.rev]

\* The mutant of decrypt_reverse: the bytes are returned as they came.
decrypt_reverse_identity(buf) == buf

decrypt_reverse(buf) == encrypt_reverse(buf)

ContentFrameOf(tag, bytes) == [domain |-> 0, tag |-> tag, bytes |-> bytes]

ContentFrameMsg(tag, bytes) ==
    [reliability_info |-> None,
     frame_type |-> [t |-> "Content", v |-> ContentFrameOf(tag, bytes)]]

\* The mutant of InviteFrame: the invite lists the sender only.
InviteFrameSenderOnly(addrs) ==
    [reliability_info |-> None,
     frame_type |-> [t |-> "ConversationInvite", v |-> [participants |-> <<addrs[1]>>]]]

\* ConversationInvite::new(addrs).to_frame(None)
InviteFrame(addrs) ==
    [reliability_info |-> None,
     frame_type |-> [t |-> "ConversationInvite", v |-> [participants |-> addrs]]]

\* A Frame whose oneof frame_type is not set.
EmptyFrame == [reliability_info |-> None, frame_type |-> None]

\* PayloadTags::from(u32)
PayloadTagsFrom(tag) ==
    CASE tag = 1 -> "TagEnvelope"
      [] tag = 2 -> "TagPublicFrame"
      [] OTHER -> "Uknown"

\* Envelope::to_payload().encode_to_vec()
ToPayloadBytes(envelope) ==
    Encode("TaggedPayload",
           [protocol |-> 1, tag |-> 1, payload_bytes |-> Encode("Envelope", envelope)])

EnvelopeOf(enc, convo_id) ==
    [encrypted_bytes |-> Some(enc), conversation_id |-> convo_id]

(* ------------------ PrivateConversation (client.rs) --------------------- *)
PrivateEncrypt(frame) ==
    [encryption |-> [t |-> "Reversed",
                     bytes |-> encrypt_reverse(Encode("Frame", frame))]]

\* The mutant of PrivateDecrypt: the algorithm variant is not checked.
PrivateDecryptAnyVariant(enc) ==
    IF enc.encryption.t = "None" THEN Err("DecodingError")
    ELSE Decode("Frame", decrypt_reverse(enc.encryption.bytes))

PrivateDecrypt(enc) ==
    IF enc.encryption.t = "None" THEN Err("DecodingError")
    ELSE IF enc.encryption.t # "Reversed" THEN Err("DecodingError")
    ELSE Decode("Frame", decrypt_reverse(enc.encryption.bytes))

\* The mutant of PrivateRecv: content is dropped, as the inbox does.
PrivateRecvDropsContent(enc) ==
    LET r == PrivateDecrypt(enc) IN
    IF ~r.ok THEN r
    ELSE IF r.val.frame_type.t = "None" THEN Err("DecodingError")
    ELSE IF r.val.frame_type.t = "Content" THEN Ok(None)
    ELSE Ok(Some(r.val))

\* Result<Option<Frame>, UmbraError>
PrivateRecv(enc) ==
    LET r == PrivateDecrypt(enc) IN
    IF ~r.ok THEN r
    ELSE IF r.val.frame_type.t = "None" THEN Err("DecodingError")
    ELSE Ok(Some(r.val))

\* The wire bytes PrivateConversation::send hands to the delivery service.
PrivateSendBytes(convo_id, tag, message) ==
    ToPayloadBytes(EnvelopeOf(PrivateEncrypt(ContentFrameMsg(tag, message)), convo_id))

\* A panic (unwrap on None / Err, todo!(), panic!()) of the running thread.
Panicked == [ok |-> FALSE, err |-> "Panic"]

\* The mutant of InboxDecrypt: the variant is not checked, a Reversed
\* payload is decrypted.
InboxDecryptAnyVariant(enc) ==
    IF enc.encryption.t = "None" THEN Err("DecodingError")
    ELSE IF enc.encryption.t = "Reversed"
    THEN Decode("Frame", decrypt_reverse(enc.encryption.bytes))
    ELSE Decode("Frame", enc.encryption.bytes)

(* ------------------- InboxConversation (client.rs) ---------------------- *)
InboxDecrypt(enc) ==
    IF enc.encryption.t = "None" THEN Err("DecodingError")
    ELSE IF enc.encryption.t # "Plaintext" THEN Err("DecodingError")
    ELSE Decode("Frame", enc.encryption.bytes)

\* The mutant of InboxRecv: content is handed on, as a private conversation
\* does.
InboxRecvContentPasses(enc) ==
    LET r == InboxDecrypt(enc) IN
    IF ~r.ok THEN r
    ELSE IF r.val.frame_type.t = "None" THEN Err("DecodingError")
    ELSE Ok(Some(r.val))

InboxRecv(enc) ==
    LET r == InboxDecrypt(enc) IN
    IF ~r.ok THEN r
    ELSE IF r.val.frame_type.t = "None" THEN Err("DecodingError")
    ELSE IF r.val.frame_type.t = "Content" THEN Ok(None)
    ELSE Ok(Some(r.val))

\* The mutant of InboxSend: the inbox forwards like a private conversation.
InboxSendForwards(convo_id, tag, message) ==
    Ok(PrivateSendBytes(convo_id, tag, message))

\* InboxConversation::send, up to the delivery service: panic!().
InboxSend(convo_id, tag, message) == Panicked

\* UmbraClient::send_frame: the bytes handed to the delivery service.
SendFrameBytes(convo_id, frame) ==
    ToPayloadBytes(
        EnvelopeOf([encryption |-> [t |-> "Plaintext", bytes |-> Encode("Frame", frame)]],
                   convo_id))

(* --------------- PrivateConversation (convos/private.rs) ---------------- *)
\* crypto::hash_to_string: SHA3-256 in hex, a function of the bytes alone.
hash_to_string(buf) == <<"sha3", buf>>

V1Encrypt(frame_bytes) ==
    [encryption |-> [t |-> "Plaintext", bytes |-> frame_bytes]]

V1ContentFrame(convo_id, tag, message) ==
    [conversation_id |-> convo_id,
     frame_type |-> [t |-> "Content", v |-> ContentFrameOf(tag, message)]]

V1ReliableBytes(convo_id, encoded_frame) ==
    [message_id |-> hash_to_string(encoded_frame),
     channel_id |-> convo_id,
     lamport_timestamp |-> 0,
     causal_history |-> <<>>,
     bloom_filter |-> <<>>,
     content |-> Some(encoded_frame)]

\* EncryptedBytes::to_envelope(convo_id, salt)
ToEnvelope(enc, convo_id, salt) ==
    [encrypted_bytes |-> Some(enc), conversation_hint |-> convo_id, salt |-> salt]

\* The wire bytes the stand-alone PrivateConversation::send hands to the
\* delivery service: an encoded Envelope.
V1SendBytes(convo_id, tag, message) ==
    Encode("Envelope",
           ToEnvelope(
               V1Encrypt(Encode("ReliableBytes",
                   V1ReliableBytes(convo_id,
                       Encode("PrivateV1Frame", V1ContentFrame(convo_id, tag, message))))),
               convo_id, 0))

\* enc_bytes.encryption.unwrap(): an absent encryption field panics.
V1Decrypt(enc) ==
    IF enc.encryption.t = "None" THEN Panicked
    ELSE IF enc.encryption.t # "Plaintext" THEN Err("DecodingError")
    ELSE Decode("ReliableBytes", enc.encryption.bytes)

\* ReliableBytes::content(): the bytes, or empty bytes when the field is unset;
\* empty bytes decode to a PrivateV1Frame with no frame_type.
V1Content(sds_frame) ==
    IF sds_frame.content.t = "None"
    THEN Encode("PrivateV1Frame", [conversation_id |-> <<>>, frame_type |-> None])
    ELSE sds_frame.content.v

\* Result<(), UmbraError>
V1Recv(enc) ==
    LET sds == V1Decrypt(enc) IN
    IF ~sds.ok THEN sds
    ELSE LET f == Decode("PrivateV1Frame", V1Content(sds.val)) IN
         IF ~f.ok THEN f
         ELSE IF f.val.frame_type.t = "None" THEN Err("DecodingError")
         ELSE Ok(<<>>)

(* ------------------------------ universe -------------------------------- *)
AddrA == <<"a">>
AddrB == <<"b">>
AddrC == <<"c">>
Clients == {AddrA, AddrB}
Peer(c) == IF c = AddrA THEN AddrB ELSE AddrA
Tags == {0, 5}
Blobs == {"hi"}
HandlerIds == 1..MaxHandlers
\* The threads of client a: two callers and the receive tasks.
Callers == {"t1", "t2"}
Rx == "rx"
Rx2 == "rx2"
Receivers == {Rx, Rx2}
Threads == Callers \cup Receivers

(* ------------------------------- state ---------------------------------- *)
VARIABLES
    convos,        \* per client: UmbraState.convos, id -> conversation instance
    handle,        \* per client: the Arc<Mutex<dyn Conversation>> the caller holds
    handlers,      \* per client: on_content_handlers
    invoked,       \* per client: the handler invocations made so far, in order
    net,           \* per client: the bytes its delivery service will return from recv
    started,       \* start() calls made
    tasks,         \* per client: number of receive tasks still running
    dsPoisoned,    \* per client: the delivery-service Mutex is poisoned
    statePoisoned, \* per client: the registry RwLock is poisoned
    convoPoisoned, \* per client: conversation instances whose Mutex is poisoned
    creates,       \* create_conversation calls made
    sends,         \* per client: conversation sends made
    faults,        \* transport faults so far
    seen,          \* per client: how often each invite envelope was applied
    last           \* the last operation and its outcome

\* The threads of client a at the grain of their lock operations: two caller
\* threads and the receive task.
VARIABLES
    pc,            \* per thread: where it stands
    hnd,           \* per caller thread: the Arc<Mutex<dyn Conversation>> it holds
    convoLock,     \* the conversation Mutexes that are locked, with their holders
    dsLock,        \* the holder of the delivery-service Mutex
    stateLock,     \* the writer holding the registry RwLock
    cur,           \* per receive task: its locals (incoming bytes, looked-up convo) and
                   \* the number of the message and the handlers called for it
    acq,           \* the sends of the caller threads, in the order they locked the conversation
    wire           \* the sends of the caller threads, in the order they reached the delivery service

threadVars == <<pc, hnd, convoLock, dsLock, stateLock, cur, acq, wire>>

vars == <<convos, handle, handlers, invoked, net, started, tasks, dsPoisoned,
          statePoisoned, convoPoisoned, creates, sends, faults, seen, last,
          pc, hnd, convoLock, dsLock, stateLock, cur, acq, wire>>


NoMsg == [kind |-> "NoMsg", rev |-> FALSE, val |-> <<>>]
NoId == <<>>

\* The record kept in `last`.
Op(op, c, res, msg, id) == [op |-> op, c |-> c, res |-> res, msg |-> msg, id |-> id]

Init ==
    /\ convos = [c \in Clients |-> <<>>]
    /\ handle = [c \in Clients |-> None]
    /\ handlers = [c \in Clients |-> <<>>]
    /\ invoked = [c \in Clients |-> <<>>]
    /\ net = [c \in Clients |-> <<>>]
    /\ started = 0
    /\ tasks = [c \in Clients |-> 0]
    /\ dsPoisoned = [c \in Clients |-> FALSE]
    /\ statePoisoned = [c \in Clients |-> FALSE]
    /\ convoPoisoned = [c \in Clients |-> {}]
    /\ creates = 0
    /\ sends = [c \in Clients |-> 0]
    /\ faults = 0
    /\ seen = [c \in Clients |-> <<>>]
    /\ last = Op("new", AddrA, "Ok", NoMsg, NoId)
    /\ pc = [t \in Threads |-> "idle"]
    /\ hnd = [t \in Callers |-> None]
    /\ convoLock = {}
    /\ dsLock = None
    /\ stateLock = None
    /\ cur = [r \in Receivers |-> [bytes |-> NoMsg, convo |-> None, n |-> 0, calls |-> <<>>]]
    /\ acq = <<>>
    /\ wire = <<>>

(* ------------------------------ registry -------------------------------- *)
\* Arc::new(Mutex::new(..)): a fresh instance; `gen` tells the instances that
\* were registered under one id apart.
NewInstance(reg, kind, convo_id) ==
    [kind |-> kind, convo_id |-> convo_id,
     gen |-> IF convo_id \in DOMAIN reg THEN reg[convo_id].gen + 1 ELSE 1]

\* The mutant of MapInsert: the map is cleared before the insert.
MapInsertCleared(reg, key, value) == [k \in {key} |-> value]

\* HashMap::insert: the value under an existing key is replaced.
MapInsert(reg, key, value) ==
    [k \in DOMAIN reg \cup {key} |-> IF k = key THEN value ELSE reg[k]]

\* The mutant of StateCreateConversation: an id that is already taken gets a
\* fresh suffix, so every call registers one more conversation.
StateCreateConversationFreshId(reg, addrs) ==
    LET convo_id == topic_private_convo(addrs)
        fresh == IF convo_id \in DOMAIN reg THEN convo_id \o <<"'">> ELSE convo_id
    IN MapInsert(reg, fresh, NewInstance(reg, "Private", fresh))

\* UmbraState::create_conversation: the registry afterwards.
StateCreateConversation(reg, addrs) ==
    LET convo_id == topic_private_convo(addrs) IN
    MapInsert(reg, convo_id, NewInstance(reg, "Private", convo_id))

\* UmbraState::create_inbox_convo: the registry afterwards.
StateCreateInboxConvo(reg, addr) ==
    LET convo_id == topic_inbox_convo(addr) IN
    MapInsert(reg, convo_id, NewInstance(reg, "Inbox", convo_id))

(* ---------------------------- delivery service -------------------------- *)
\* A successful DeliveryService::send: every other client's recv will return
\* the bytes, in send order.
Deliver(from, bytes) ==
    [c \in Clients |-> IF c = from THEN net[c] ELSE Append(net[c], bytes)]

(* ------------------------------ operations ------------------------------ *)
\* UmbraClient::start
Start(c) ==
    /\ started < MaxStart
    /\ started' = started + 1
    /\ IF statePoisoned[c]
       THEN /\ last' = Op("start", c, "Panic", NoMsg, NoId)
            /\ UNCHANGED <<convos, tasks>>
       ELSE /\ convos' = [convos EXCEPT ![c] = StateCreateInboxConvo(@, c)]
            /\ tasks' = [tasks EXCEPT ![c] = @ + 1]
            /\ last' = Op("start", c, "Ok", NoMsg, topic_inbox_convo(c))
    /\ UNCHANGED <<handle, handlers, invoked, net, dsPoisoned, statePoisoned,
                   convoPoisoned, creates, sends, faults, seen>>
    /\ UNCHANGED threadVars

NumHandlers == Len(handlers[AddrA]) + Len(handlers[AddrB])

\* UmbraClient::add_content_handler, while fewer than `max` handlers exist.
PushHandler(c, h, max) ==
    /\ NumHandlers < max
    /\ h = NumHandlers + 1
    /\ handlers' = [handlers EXCEPT ![c] = Append(@, h)]
    /\ last' = Op("add_content_handler", c, "Ok", NoMsg, NoId)
    /\ UNCHANGED <<convos, handle, invoked, net, started, tasks, dsPoisoned,
                   statePoisoned, convoPoisoned, creates, sends, faults, seen>>
    /\ UNCHANGED threadVars

AddContentHandler(c, h) == PushHandler(c, h, MaxHandlers)

\* UmbraClient::get_conversation
GetConversation(c, id) ==
    /\ id \in DOMAIN convos[c]
    /\ handle[c] = None
    /\ IF statePoisoned[c]
       THEN /\ last' = Op("get_conversation", c, "Panic", NoMsg, id)
            /\ UNCHANGED handle
       ELSE /\ handle' = [handle EXCEPT ![c] = Some(convos[c][id])]
            /\ last' = Op("get_conversation", c, "Ok", NoMsg, id)
    /\ UNCHANGED <<convos, handlers, invoked, net, started, tasks, dsPoisoned,
                   statePoisoned, convoPoisoned, creates, sends, faults, seen>>
    /\ UNCHANGED threadVars

\* UmbraClient::create_conversation, with the outcome of the delivery
\* service's send (sendOk).  The registry write lock is held to the end, so a
\* panic inside send_frame (a poisoned delivery-service Mutex) poisons it.
CreateConversation(c, addr, sendOk) ==
    /\ creates < MaxCreate
    /\ sendOk \/ faults < MaxFaults
    /\ creates' = creates + 1
    /\ LET addrs == <<c, addr>>
           reg == StateCreateConversation(convos[c], addrs)
           convo_id == topic_private_convo(addrs)
           bytes == SendFrameBytes(topic_inbox_convo(addr), InviteFrame(addrs))
       IN
       IF statePoisoned[c]
       THEN /\ last' = Op("create_conversation", c, "Panic", NoMsg, convo_id)
            /\ UNCHANGED <<convos, handle, net, statePoisoned, faults>>
       ELSE /\ convos' = [convos EXCEPT ![c] = reg]
            /\ IF dsPoisoned[c]
               THEN /\ statePoisoned' = [statePoisoned EXCEPT ![c] = TRUE]
                    /\ last' = Op("create_conversation", c, "Panic", bytes, convo_id)
                    /\ UNCHANGED <<handle, net, faults>>
               ELSE IF sendOk
               THEN /\ net' = Deliver(c, bytes)
                    /\ handle' = [handle EXCEPT ![c] = Some(reg[convo_id])]
                    /\ last' = Op("create_conversation", c, "Ok", bytes, convo_id)
                    /\ UNCHANGED <<statePoisoned, faults>>
               ELSE /\ faults' = faults + 1
                    /\ last' = Op("create_conversation", c, "PublishError", bytes, convo_id)
                    /\ UNCHANGED <<handle, net, statePoisoned>>
    /\ UNCHANGED <<handlers, invoked, started, tasks, dsPoisoned, convoPoisoned,
                   sends, seen>>
    /\ UNCHANGED threadVars

NumSends == sends[AddrA] + sends[AddrB]

\* Conversation::send through a handle the caller holds:
\* convo.lock().unwrap().send(tag, message), with the outcome of the delivery
\* service's send (sendOk).  The conversation Mutex is held during the call, so
\* a panic inside it poisons the conversation, and a panic while the
\* delivery-service Mutex is held poisons the delivery service.
ConvoSend(c, h, tag, message, sendOk) ==
    /\ handle[c] = Some(h)
    /\ NumSends < MaxSends
    /\ sendOk \/ faults < MaxFaults
    /\ sends' = [sends EXCEPT ![c] = @ + 1]
    /\ LET built == IF h.kind = "Inbox"
                    THEN InboxSend(h.convo_id, tag, message)
                    ELSE Ok(PrivateSendBytes(h.convo_id, tag, message))
           bytes == built.val
       IN
       IF h \in convoPoisoned[c]
       THEN /\ last' = Op("send", c, "Panic", NoMsg, h.convo_id)
            /\ UNCHANGED <<net, dsPoisoned, convoPoisoned, faults>>
       ELSE IF ~built.ok
       THEN /\ convoPoisoned' = [convoPoisoned EXCEPT ![c] = @ \cup {h}]
            /\ last' = Op("send", c, "Panic", NoMsg, h.convo_id)
            /\ UNCHANGED <<net, dsPoisoned, faults>>
       ELSE IF dsPoisoned[c]
       THEN /\ convoPoisoned' = [convoPoisoned EXCEPT ![c] = @ \cup {h}]
            /\ last' = Op("send", c, "Panic", bytes, h.convo_id)
            /\ UNCHANGED <<net, dsPoisoned, faults>>
       ELSE IF sendOk
       THEN /\ net' = Deliver(c, bytes)
            /\ last' = Op("send", c, "Ok", bytes, h.convo_id)
            /\ UNCHANGED <<dsPoisoned, convoPoisoned, faults>>
       ELSE /\ faults' = faults + 1
            /\ dsPoisoned' = [dsPoisoned EXCEPT ![c] = TRUE]
            /\ convoPoisoned' = [convoPoisoned EXCEPT ![c] = @ \cup {h}]
            /\ last' = Op("send", c, "Panic", bytes, h.convo_id)
            /\ UNCHANGED net
    /\ UNCHANGED <<convos, handle, handlers, invoked, started, tasks,
                   statePoisoned, creates, seen>>
    /\ UNCHANGED threadVars

\* convos/private.rs PrivateConversation::send on a conversation built with
\* PrivateConversation::new(topic_private_convo([c, peer]), ds).
V1Send(c, tag, message, sendOk) ==
    /\ NumSends < MaxSends
    /\ sendOk \/ faults < MaxFaults
    /\ sends' = [sends EXCEPT ![c] = @ + 1]
    /\ LET convo_id == topic_private_convo(<<c, Peer(c)>>)
           bytes == V1SendBytes(convo_id, tag, message)
       IN
       IF dsPoisoned[c]
       THEN /\ last' = Op("v1_send", c, "Panic", bytes, convo_id)
            /\ UNCHANGED <<net, dsPoisoned, faults>>
       ELSE IF sendOk
       THEN /\ net' = Deliver(c, bytes)
            /\ last' = Op("v1_send", c, "Ok", bytes, convo_id)
            /\ UNCHANGED <<dsPoisoned, faults>>
       ELSE /\ faults' = faults + 1
            /\ dsPoisoned' = [dsPoisoned EXCEPT ![c] = TRUE]
            /\ last' = Op("v1_send", c, "Panic", bytes, convo_id)
            /\ UNCHANGED net
    /\ UNCHANGED <<convos, handle, handlers, invoked, started, tasks,
                   statePoisoned, convoPoisoned, creates, seen>>
    /\ UNCHANGED threadVars

(* ------------------------------ receive path ---------------------------- *)
\* What one call of UmbraClient::recv does with `bytes` in the current state:
\* res is "Ok", "DecodingError" or "Panic"; invoke lists the handler calls made,
\* in order; insert is the participant list handed to create_conversation.
Outcome(res, invoke, insert) == [res |-> res, invoke |-> invoke, insert |-> insert]

\* The mutant of Dispatch: a frame already dispatched for the conversation is
\* not dispatched again.
DispatchDeduplicated(c, convo, content_frame) ==
    IF \E i \in 1..Len(invoked[c]) :
          invoked[c][i].convo_id = convo.convo_id /\ invoked[c][i].frame = content_frame
    THEN <<>>
    ELSE [i \in 1..Len(handlers[c]) |->
             [h |-> handlers[c][i], convo_id |-> convo.convo_id, frame |-> content_frame]]

\* The mutant of Dispatch: the handlers are called last registered first.
DispatchLastFirst(c, convo, content_frame) ==
    [i \in 1..Len(handlers[c]) |->
        [h |-> handlers[c][Len(handlers[c]) + 1 - i], convo_id |-> convo.convo_id,
         frame |-> content_frame]]

\* The handler loop of handle_envelope on a Content frame.
Dispatch(c, convo, content_frame) ==
    [i \in 1..Len(handlers[c]) |->
        [h |-> handlers[c][i], convo_id |-> convo.convo_id, frame |-> content_frame]]

\* Conversation::recv, dispatched on the variant.
ConvoRecv(convo, enc) ==
    IF convo.kind = "Private" THEN PrivateRecv(enc) ELSE InboxRecv(enc)

\* The mutant of handle_envelope: a missing conversation is an error.
HandleEnvelopeMissingIsError(c, envelope) ==
    IF envelope.encrypted_bytes.t = "None" THEN Outcome("DecodingError", <<>>, None)
    ELSE IF statePoisoned[c] THEN Outcome("Panic", <<>>, None)
    ELSE IF envelope.conversation_id \notin DOMAIN convos[c]
    THEN Outcome("UnexpectedError", <<>>, None)
    ELSE LET convo == convos[c][envelope.conversation_id] IN
         IF convo \in convoPoisoned[c] THEN Outcome("Panic", <<>>, None)
         ELSE LET r == ConvoRecv(convo, envelope.encrypted_bytes.v) IN
              IF ~r.ok THEN Outcome(r.err, <<>>, None)
              ELSE IF r.val.t = "None" THEN Outcome("Ok", <<>>, None)
              ELSE LET ft == r.val.v.frame_type IN
                   IF ft.t = "Content"
                   THEN Outcome("Ok", Dispatch(c, convo, ft.v), None)
                   ELSE Outcome("Ok", <<>>, Some(ft.v.participants))

\* UmbraClient::handle_envelope
HandleEnvelope(c, envelope) ==
    IF envelope.encrypted_bytes.t = "None" THEN Outcome("DecodingError", <<>>, None)
    ELSE IF statePoisoned[c] THEN Outcome("Panic", <<>>, None)
    ELSE IF envelope.conversation_id \notin DOMAIN convos[c] THEN Outcome("Ok", <<>>, None)
    ELSE LET convo == convos[c][envelope.conversation_id] IN
         IF convo \in convoPoisoned[c] THEN Outcome("Panic", <<>>, None)
         ELSE LET r == ConvoRecv(convo, envelope.encrypted_bytes.v) IN
              IF ~r.ok THEN Outcome(r.err, <<>>, None)
              ELSE IF r.val.t = "None" THEN Outcome("Ok", <<>>, None)
              ELSE LET ft == r.val.v.frame_type IN
                   IF ft.t = "Content"
                   THEN Outcome("Ok", Dispatch(c, convo, ft.v), None)
                   ELSE Outcome("Ok", <<>>, Some(ft.v.participants))

\* UmbraClient::recv
ClientRecv(c, bytes) ==
    LET payload == Decode("TaggedPayload", bytes) IN
    IF ~payload.ok THEN Outcome(payload.err, <<>>, None)
    ELSE IF PayloadTagsFrom(payload.val.tag) # "TagEnvelope"
    THEN Outcome("Panic", <<>>, None)
    ELSE LET envelope == Decode("Envelope", payload.val.payload_bytes) IN
         IF ~envelope.ok THEN Outcome(envelope.err, <<>>, None)
         ELSE HandleEnvelope(c, envelope.val)

(* ------------------------------ receive loop ---------------------------- *)
\* One more occurrence of `key` in the tally `f`.
Count(f, key) ==
    [k \in DOMAIN f \cup {key} |->
        IF k = key THEN (IF key \in DOMAIN f THEN f[key] + 1 ELSE 1) ELSE f[k]]

\* The rest of a loop iteration once the delivery service's recv has returned
\* Ok(Some(bytes)): the bytes are handed to UmbraClient::recv and an error
\* result is logged.  A panic ends the task.  `rest` is what the delivery
\* service will return from now on.
Process(c, bytes, rest) ==
    LET out == ClientRecv(c, bytes) IN
    /\ net' = [net EXCEPT ![c] = rest]
    /\ tasks' = [tasks EXCEPT ![c] = IF out.res = "Panic" THEN @ - 1 ELSE @]
    /\ invoked' = [invoked EXCEPT ![c] = @ \o out.invoke]
    /\ IF out.insert.t = "Some"
       THEN /\ convos' = [convos EXCEPT ![c] = StateCreateConversation(@, out.insert.v)]
            /\ seen' = [seen EXCEPT ![c] = Count(@, bytes)]
            /\ last' = Op("recv", c, out.res, bytes, topic_private_convo(out.insert.v))
       ELSE /\ last' = Op("recv", c, out.res, bytes, NoId)
            /\ UNCHANGED <<convos, seen>>
    /\ UNCHANGED <<handle, handlers, started, dsPoisoned, statePoisoned,
                   convoPoisoned, creates, sends>>
    /\ UNCHANGED threadVars

\* An iteration of the receive task's loop: recv returns the next bytes sent.
ReceiveMsg(c) ==
    /\ tasks[c] > 0
    /\ ~dsPoisoned[c]
    /\ net[c] # <<>>
    /\ Process(c, Head(net[c]), Tail(net[c]))
    /\ UNCHANGED faults

\* An iteration in which recv returns Ok(None): continue.
ReceiveNone(c) ==
    /\ tasks[c] > 0
    /\ ~dsPoisoned[c]
    /\ net[c] = <<>>
    /\ last' = Op("recv", c, "None", NoMsg, NoId)
    /\ UNCHANGED <<convos, handle, handlers, invoked, net, started, tasks,
                   dsPoisoned, statePoisoned, convoPoisoned, creates, sends,
                   faults, seen>>
    /\ UNCHANGED threadVars

\* An iteration in which recv returns Err(PollError): recv().unwrap() panics
\* while the delivery-service Mutex is held, which poisons it.
ReceiveFail(c) ==
    /\ tasks[c] > 0
    /\ ~dsPoisoned[c]
    /\ faults < MaxFaults
    /\ faults' = faults + 1
    /\ tasks' = [tasks EXCEPT ![c] = @ - 1]
    /\ dsPoisoned' = [dsPoisoned EXCEPT ![c] = TRUE]
    /\ last' = Op("recv", c, "PollError", NoMsg, NoId)
    /\ UNCHANGED <<convos, handle, handlers, invoked, net, started,
                   statePoisoned, convoPoisoned, creates, sends, seen>>
    /\ UNCHANGED threadVars

\* An iteration that finds the delivery-service Mutex poisoned:
\* ds.lock().unwrap() panics.
ReceivePoisoned(c) ==
    /\ tasks[c] > 0
    /\ dsPoisoned[c]
    /\ tasks' = [tasks EXCEPT ![c] = @ - 1]
    /\ last' = Op("recv", c, "Panic", NoMsg, NoId)
    /\ UNCHANGED <<convos, handle, handlers, invoked, net, started, dsPoisoned,
                   statePoisoned, convoPoisoned, creates, sends, faults, seen>>
    /\ UNCHANGED threadVars

(* ----------------------- an unreliable transport ------------------------ *)
\* The transport delivers the next bytes and will deliver them once more.
ReceiveDuplicate(c) ==
    /\ tasks[c] > 0
    /\ ~dsPoisoned[c]
    /\ net[c] # <<>>
    /\ faults < MaxFaults
    /\ faults' = faults + 1
    /\ Process(c, Head(net[c]), net[c])

\* The transport delivers the second bytes sent before the first.
ReceiveReordered(c) ==
    /\ tasks[c] > 0
    /\ ~dsPoisoned[c]
    /\ Len(net[c]) >= 2
    /\ faults < MaxFaults
    /\ faults' = faults + 1
    /\ Process(c, net[c][2], <<net[c][1]>> \o SubSeq(net[c], 3, Len(net[c])))

\* The transport loses the next bytes.
Lose(c) ==
    /\ net[c] # <<>>
    /\ faults < MaxFaults
    /\ faults' = faults + 1
    /\ net' = [net EXCEPT ![c] = Tail(@)]
    /\ last' = Op("lose", c, "Ok", Head(net[c]), NoId)
    /\ UNCHANGED <<convos, handle, handlers, invoked, started, tasks, dsPoisoned,
                   statePoisoned, convoPoisoned, creates, sends, seen>>
    /\ UNCHANGED threadVars

\* The transport delivers bytes that no client sent.
ReceiveCrafted(c, bytes) ==
    /\ tasks[c] > 0
    /\ ~dsPoisoned[c]
    /\ faults < MaxFaults
    /\ faults' = faults + 1
    /\ Process(c, bytes, net[c])

\* convos/private.rs PrivateConversation::recv on a conversation built with
\* PrivateConversation::new(topic_private_convo([c, peer]), ds).
V1RecvCall(c, enc) ==
    /\ last' = Op("v1_recv", c, IF V1Recv(enc).ok THEN "Ok" ELSE V1Recv(enc).err,
                  Encode("EncryptedBytes", enc), topic_private_convo(<<c, Peer(c)>>))
    /\ UNCHANGED <<convos, handle, handlers, invoked, net, started, tasks,
                   dsPoisoned, statePoisoned, convoPoisoned, creates, sends,
                   faults, seen>>
    /\ UNCHANGED threadVars

(* ------------------------- what a transport may carry ------------------- *)
TaggedBytes(tag, payload) ==
    Encode("TaggedPayload", [protocol |-> 1, tag |-> tag, payload_bytes |-> payload])

EnvelopeBytes(convo_id, enc) ==
    TaggedBytes(1, Encode("Envelope", [encrypted_bytes |-> enc, conversation_id |-> convo_id]))

EncOf(variant, bytes) == [encryption |-> [t |-> variant, bytes |-> bytes]]

EncAbsent == [encryption |-> None]

InviteLists(c) == {<<Peer(c), c>>, <<c, Peer(c)>>, <<AddrC, c>>, <<AddrC, Peer(c)>>}

CraftedFrames(c) ==
    {ContentFrameMsg(t, m) : t \in Tags, m \in Blobs} \cup {EmptyFrame}
        \cup {InviteFrame(p) : p \in InviteLists(c)}

CraftedFrameBytes(c) ==
    {Garbage} \cup {Encode("Frame", f) : f \in CraftedFrames(c)}
        \cup {encrypt_reverse(Encode("Frame", f)) : f \in CraftedFrames(c)}

CraftedEnc(c) ==
    {EncAbsent}
        \cup {EncOf(v, b) : v \in {"Plaintext", "Reversed"}, b \in CraftedFrameBytes(c)}

CraftedHints(c) ==
    {topic_inbox_convo(c), topic_private_convo(<<c, Peer(c)>>), topic_inbox_convo(AddrC)}

\* The bytes the transport may hand to client c without any client having
\* sent them: malformed at every layer, reserved tags, and well-formed
\* envelopes for every hint, variant and frame.
Crafted(c) ==
    {Garbage, TaggedBytes(1, Garbage)}
        \cup {TaggedBytes(t, Garbage) : t \in {0, 2, 3}}
        \cup {EnvelopeBytes(id, None) : id \in CraftedHints(c)}
        \cup {EnvelopeBytes(id, Some(e)) : id \in CraftedHints(c), e \in CraftedEnc(c)}

\* The EncryptedBytes handed to the stand-alone PrivateConversation::recv.
V1CraftedEnc(c) ==
    LET id == topic_private_convo(<<c, Peer(c)>>)
        frames == {Garbage}
                     \cup {Encode("PrivateV1Frame", V1ContentFrame(id, t, m)) :
                              t \in Tags, m \in Blobs}
        reliable == {Garbage,
                     Encode("ReliableBytes",
                            [V1ReliableBytes(id, Garbage) EXCEPT !.content = None])}
                       \cup {Encode("ReliableBytes", V1ReliableBytes(id, fb)) : fb \in frames}
    IN {EncAbsent} \cup {EncOf(v, b) : v \in {"Plaintext", "Reversed"}, b \in reliable}

(* ---------------------------- specifications ---------------------------- *)
\* Spec: both clients run every operation, over a transport that may fail,
\* lose, duplicate and reorder.
Next ==
    \E c \in Clients :
        \/ Start(c)
        \/ \E h \in HandlerIds : AddContentHandler(c, h)
        \/ \E id \in DOMAIN convos[c] : GetConversation(c, id)
        \/ \E ok \in BOOLEAN : CreateConversation(c, Peer(c), ok)
        \/ \E tag \in Tags, m \in Blobs, ok \in BOOLEAN :
              /\ handle[c].t = "Some"
              /\ ConvoSend(c, handle[c].v, tag, m, ok)
        \/ ReceiveMsg(c)
        \/ ReceiveNone(c)
        \/ ReceiveFail(c)
        \/ ReceivePoisoned(c)
        \/ ReceiveDuplicate(c)
        \/ ReceiveReordered(c)
        \/ Lose(c)
        \/ \E tag \in Tags, m \in Blobs, ok \in BOOLEAN : V1Send(c, tag, m, ok)

Spec == Init /\ [][Next]_vars

\* SpecAdv: client a initiates and sends, client b receives; the transport is
\* adversarial: it may hand b any crafted bytes.
NextAdv ==
    \/ \E c \in Clients : Start(c)
    \/ \E h \in HandlerIds : AddContentHandler(AddrB, h)
    \/ CreateConversation(AddrA, AddrB, TRUE)
    \/ \E tag \in Tags, m \in Blobs :
          /\ handle[AddrA].t = "Some"
          /\ ConvoSend(AddrA, handle[AddrA].v, tag, m, TRUE)
    \/ \E c \in Clients : ReceiveMsg(c)
    \/ \E bytes \in Crafted(AddrB) : ReceiveCrafted(AddrB, bytes)
    \/ \E enc \in V1CraftedEnc(AddrB) : V1RecvCall(AddrB, enc)

SpecAdv == Init /\ [][NextAdv]_vars

\* SpecReliable: every operation of well-behaved callers over a transport that
\* delivers each message once and in send order; the receive tasks are
\* scheduled fairly.
NextReliable ==
    \E c \in Clients :
        \/ Start(c)
        \/ \E h \in HandlerIds : AddContentHandler(c, h)
        \/ CreateConversation(c, Peer(c), TRUE)
        \/ \E tag \in Tags, m \in Blobs :
              /\ handle[c].t = "Some"
              /\ handle[c].v.kind = "Private"
              /\ ConvoSend(c, handle[c].v, tag, m, TRUE)
        \/ ReceiveMsg(c)

\* The receive task's turn as the transport sees it: while the task runs and
\* bytes are queued, the head of the queue is taken.  Under NextReliable the
\* steps that take the head of net[c] are exactly the ReceiveMsg(c) steps.
RecvStep(c) ==
    /\ tasks[c] > 0
    /\ ~dsPoisoned[c]
    /\ net[c] # <<>>
    /\ net' = [net EXCEPT ![c] = Tail(@)]

\* The spawned receive task is scheduled again and again.
SpecReliable ==
    /\ Init
    /\ [][NextReliable]_vars
    /\ \A c \in Clients : WF_net(RecvStep(c))


(* ------------------------- the threads of client a ---------------------- *)
\* The same operations at the grain of their lock operations, without
\* failures: two caller threads of client a, each obtaining a handle and
\* sending once on it, and a's receive task.

\* The conversation Mutex of this instance is locked.
Locked(convo) == \E l \in convoLock : l.convo = convo

\* The stages of UmbraClient::recv before the registry is read: the decoded
\* Envelope, an error, or a panic.
RecvEnvelope(bytes) ==
    LET payload == Decode("TaggedPayload", bytes) IN
    IF ~payload.ok THEN payload
    ELSE IF PayloadTagsFrom(payload.val.tag) # "TagEnvelope" THEN Panicked
    ELSE LET envelope == Decode("Envelope", payload.val.payload_bytes) IN
         IF ~envelope.ok THEN envelope
         ELSE IF envelope.val.encrypted_bytes.t = "None" THEN Err("DecodingError")
         ELSE envelope

\* create_conversation up to send_frame: the registry write lock is taken
\* and the conversation inserted.
ThCreateBegin(t) ==
    /\ pc[t] = "idle"
    /\ creates < MaxCreate
    /\ stateLock = None
    /\ creates' = creates + 1
    /\ stateLock' = Some(t)
    /\ convos' = [convos EXCEPT ![AddrA] = StateCreateConversation(@, <<AddrA, AddrB>>)]
    /\ pc' = [pc EXCEPT ![t] = "creating"]
    /\ UNCHANGED <<handle, handlers, invoked, net, started, tasks, dsPoisoned,
                   statePoisoned, convoPoisoned, sends, faults, seen, last,
                   hnd, convoLock, dsLock, cur, acq, wire>>

\* The mutant of ThCreateEnd: the registry write guard is not dropped.
ThCreateEndKeepsLock(t) ==
    /\ pc[t] = "creating"
    /\ dsLock = None
    /\ LET addrs == <<AddrA, AddrB>>
           bytes == SendFrameBytes(topic_inbox_convo(AddrB), InviteFrame(addrs))
       IN /\ net' = Deliver(AddrA, bytes)
          /\ last' = Op("create_conversation", AddrA, "Ok", bytes, topic_private_convo(addrs))
          /\ hnd' = [hnd EXCEPT ![t] = Some(convos[AddrA][topic_private_convo(addrs)])]
    /\ stateLock' = stateLock
    /\ pc' = [pc EXCEPT ![t] = "ready"]
    /\ UNCHANGED <<convos, handle, handlers, invoked, started, tasks, dsPoisoned,
                   statePoisoned, convoPoisoned, creates, sends, faults, seen,
                   convoLock, dsLock, cur, acq, wire>>

\* send_frame: the delivery-service Mutex is taken for the send of the
\* invite; then the write lock is dropped and the handle returned.
ThCreateEnd(t) ==
    /\ pc[t] = "creating"
    /\ dsLock = None
    /\ LET addrs == <<AddrA, AddrB>>
           bytes == SendFrameBytes(topic_inbox_convo(AddrB), InviteFrame(addrs))
       IN /\ net' = Deliver(AddrA, bytes)
          /\ last' = Op("create_conversation", AddrA, "Ok", bytes, topic_private_convo(addrs))
          /\ hnd' = [hnd EXCEPT ![t] = Some(convos[AddrA][topic_private_convo(addrs)])]
    /\ stateLock' = None
    /\ pc' = [pc EXCEPT ![t] = "ready"]
    /\ UNCHANGED <<convos, handle, handlers, invoked, started, tasks, dsPoisoned,
                   statePoisoned, convoPoisoned, creates, sends, faults, seen,
                   convoLock, dsLock, cur, acq, wire>>

\* get_conversation(id) under the registry read lock, for a Private id.
ThGet(t, id) ==
    /\ pc[t] = "idle"
    /\ stateLock = None
    /\ id \in DOMAIN convos[AddrA]
    /\ convos[AddrA][id].kind = "Private"
    /\ hnd' = [hnd EXCEPT ![t] = Some(convos[AddrA][id])]
    /\ pc' = [pc EXCEPT ![t] = "ready"]
    /\ last' = Op("get_conversation", AddrA, "Ok", NoMsg, id)
    /\ UNCHANGED <<convos, handle, handlers, invoked, net, started, tasks,
                   dsPoisoned, statePoisoned, convoPoisoned, creates, sends,
                   faults, seen, convoLock, dsLock, stateLock, cur, acq, wire>>

\* convo.lock().unwrap().send(..): the conversation Mutex is taken.
ThSendLock(t) ==
    /\ pc[t] = "ready"
    /\ ~Locked(hnd[t].v)
    /\ convoLock' = convoLock \cup {[convo |-> hnd[t].v, by |-> t]}
    /\ acq' = Append(acq, [t |-> t, convo_id |-> hnd[t].v.convo_id])
    /\ pc' = [pc EXCEPT ![t] = "sending"]
    /\ UNCHANGED <<convos, handle, handlers, invoked, net, started, tasks,
                   dsPoisoned, statePoisoned, convoPoisoned, creates, sends,
                   faults, seen, last, hnd, dsLock, stateLock, cur, wire>>

\* PrivateConversation::send: the frame is built, the delivery-service Mutex
\* taken for the send, and both Mutexes are dropped.
ThSendDs(t, tag, message) ==
    /\ pc[t] = "sending"
    /\ dsLock = None
    /\ LET bytes == PrivateSendBytes(hnd[t].v.convo_id, tag, message) IN
       /\ net' = Deliver(AddrA, bytes)
       /\ last' = Op("send", AddrA, "Ok", bytes, hnd[t].v.convo_id)
    /\ wire' = Append(wire, [t |-> t, convo_id |-> hnd[t].v.convo_id])
    /\ convoLock' = convoLock \ {[convo |-> hnd[t].v, by |-> t]}
    /\ pc' = [pc EXCEPT ![t] = "done"]
    /\ UNCHANGED <<convos, handle, handlers, invoked, started, tasks, dsPoisoned,
                   statePoisoned, convoPoisoned, creates, sends, faults, seen,
                   hnd, dsLock, stateLock, cur, acq>>

\* Receive task r has been spawned and has not panicked: the first start()
\* spawns rx, the second rx2.
TaskNo(r) == IF r = Rx THEN 1 ELSE 2
Running(r) ==
    /\ pc[r] # "dead"
    /\ TaskNo(r) <= tasks[AddrA] + Cardinality({x \in Receivers : pc[x] = "dead"})

\* The number of messages the receive tasks have taken from the delivery
\* service.
Taken == IF cur[Rx].n > cur[Rx2].n THEN cur[Rx].n ELSE cur[Rx2].n

\* The locals of a task that has just taken `bytes`.
TakenBy(bytes) == [bytes |-> bytes, convo |-> None, n |-> Taken + 1, calls |-> <<>>]

\* Receive task r is in the handler loop: between two handler calls, inside
\* a handler, or inside a handler that waits for the conversation Mutex.
InLoop(r) == pc[r] \in {"calling", "in_handler", "handler_waits"}

\* The read guard of on_content_handlers is alive: some task is in the
\* handler loop.
HandlersNeverLocked == FALSE

HandlersReadLocked == \E r \in Receivers : InLoop(r)

\* add_content_handler on a caller thread: the write lock of
\* on_content_handlers waits for the readers.
ThAddContentHandler(h, max) ==
    /\ ~HandlersReadLocked
    /\ PushHandler(AddrA, h, max)

\* The receive task: ds.lock().unwrap().recv() returns bytes at once.
RxPoll(r) ==
    /\ Running(r)
    /\ pc[r] = "idle"
    /\ dsLock = None
    /\ net[AddrA] # <<>>
    /\ cur' = [cur EXCEPT ![r] = TakenBy(Head(net[AddrA]))]
    /\ net' = [net EXCEPT ![AddrA] = Tail(@)]
    /\ pc' = [pc EXCEPT ![r] = "got"]
    /\ UNCHANGED <<convos, handle, handlers, invoked, started, tasks, dsPoisoned,
                   statePoisoned, convoPoisoned, creates, sends, faults, seen,
                   last, hnd, convoLock, dsLock, stateLock, acq, wire>>

\* The same, over a transport that will return these bytes once more.
RxPollDuplicate(r) ==
    /\ Running(r)
    /\ pc[r] = "idle"
    /\ dsLock = None
    /\ net[AddrA] # <<>>
    /\ faults < MaxFaults
    /\ faults' = faults + 1
    /\ cur' = [cur EXCEPT ![r] = TakenBy(Head(net[AddrA]))]
    /\ pc' = [pc EXCEPT ![r] = "got"]
    /\ UNCHANGED <<convos, handle, handlers, invoked, net, started, tasks,
                   dsPoisoned, statePoisoned, convoPoisoned, creates, sends, seen,
                   last, hnd, convoLock, dsLock, stateLock, acq, wire>>

\* recv of a delivery service that blocks until a message arrives: the task
\* is suspended inside recv, with the MutexGuard of the statement alive.
RxBlock(r) ==
    /\ Running(r)
    /\ pc[r] = "idle"
    /\ dsLock = None
    /\ net[AddrA] = <<>>
    /\ dsLock' = Some(r)
    /\ pc' = [pc EXCEPT ![r] = "in_recv"]
    /\ UNCHANGED <<convos, handle, handlers, invoked, net, started, tasks,
                   dsPoisoned, statePoisoned, convoPoisoned, creates, sends,
                   faults, seen, last, hnd, convoLock, stateLock, cur, acq, wire>>

\* A message has arrived: the blocked recv returns it and the guard is dropped.
RxWake(r) ==
    /\ pc[r] = "in_recv"
    /\ net[AddrA] # <<>>
    /\ cur' = [cur EXCEPT ![r] = TakenBy(Head(net[AddrA]))]
    /\ net' = [net EXCEPT ![AddrA] = Tail(@)]
    /\ dsLock' = None
    /\ pc' = [pc EXCEPT ![r] = "got"]
    /\ UNCHANGED <<convos, handle, handlers, invoked, started, tasks, dsPoisoned,
                   statePoisoned, convoPoisoned, creates, sends, faults, seen,
                   last, hnd, convoLock, stateLock, acq, wire>>

\* UmbraClient::recv and handle_envelope up to the registry lookup under the
\* read lock.
RxLookup(r) ==
    /\ pc[r] = "got"
    /\ LET e == RecvEnvelope(cur[r].bytes) IN
       IF ~e.ok
       THEN /\ tasks' = [tasks EXCEPT ![AddrA] = IF e.err = "Panic" THEN @ - 1 ELSE @]
            /\ pc' = [pc EXCEPT ![r] = IF e.err = "Panic" THEN "dead" ELSE "idle"]
            /\ last' = Op("recv", AddrA, e.err, cur[r].bytes, NoId)
            /\ UNCHANGED cur
       ELSE /\ stateLock = None
            /\ UNCHANGED tasks
            /\ IF e.val.conversation_id \in DOMAIN convos[AddrA]
               THEN /\ cur' = [cur EXCEPT ![r].convo = Some(convos[AddrA][e.val.conversation_id])]
                    /\ pc' = [pc EXCEPT ![r] = "found"]
                    /\ UNCHANGED last
               ELSE /\ pc' = [pc EXCEPT ![r] = "idle"]
                    /\ last' = Op("recv", AddrA, "Ok", cur[r].bytes, NoId)
                    /\ UNCHANGED cur
    /\ UNCHANGED <<convos, handle, handlers, invoked, net, started, dsPoisoned,
                   statePoisoned, convoPoisoned, creates, sends, faults, seen,
                   hnd, convoLock, dsLock, stateLock, acq, wire>>

\* convo.lock().unwrap().recv(enc): the conversation Mutex is taken.
RxConvoLock(r) ==
    /\ pc[r] = "found"
    /\ ~Locked(cur[r].convo.v)
    /\ convoLock' = convoLock \cup {[convo |-> cur[r].convo.v, by |-> r]}
    /\ pc' = [pc EXCEPT ![r] = "recving"]
    /\ UNCHANGED <<convos, handle, handlers, invoked, net, started, tasks,
                   dsPoisoned, statePoisoned, convoPoisoned, creates, sends,
                   faults, seen, last, hnd, dsLock, stateLock, cur, acq, wire>>

\* What the conversation's recv returns for the bytes at hand.
RxFrame(r) == ConvoRecv(cur[r].convo.v, RecvEnvelope(cur[r].bytes).val.encrypted_bytes.v)

\* recv returns and the conversation Mutex is dropped.
RxConvoDone(r) ==
    /\ pc[r] = "recving"
    /\ convoLock' = convoLock \ {[convo |-> cur[r].convo.v, by |-> r]}
    /\ IF ~RxFrame(r).ok
       THEN /\ pc' = [pc EXCEPT ![r] = "idle"]
            /\ last' = Op("recv", AddrA, RxFrame(r).err, cur[r].bytes, NoId)
       ELSE IF RxFrame(r).val.t = "None"
       THEN /\ pc' = [pc EXCEPT ![r] = "idle"]
            /\ last' = Op("recv", AddrA, "Ok", cur[r].bytes, NoId)
       ELSE /\ pc' = [pc EXCEPT ![r] =
                        IF RxFrame(r).val.v.frame_type.t = "Content" THEN "dispatch" ELSE "insert"]
            /\ UNCHANGED last
    /\ UNCHANGED <<convos, handle, handlers, invoked, net, started, tasks,
                   dsPoisoned, statePoisoned, convoPoisoned, creates, sends,
                   faults, seen, hnd, dsLock, stateLock, cur, acq, wire>>

\* handler.read().unwrap().iter(): the read guard of on_content_handlers is
\* taken for the handler loop.
RxDispatchBegin(r) ==
    /\ pc[r] = "dispatch"
    /\ pc' = [pc EXCEPT ![r] = "calling"]
    /\ UNCHANGED <<convos, handle, handlers, invoked, net, started, tasks,
                   dsPoisoned, statePoisoned, convoPoisoned, creates, sends,
                   faults, seen, last, hnd, convoLock, dsLock, stateLock, cur,
                   acq, wire>>

\* One iteration of the handler loop: handler(convo.lock().unwrap().convo_id()
\* .clone(), content_frame.clone()).  The MutexGuard is a temporary of the
\* call statement: it is taken before the handler is entered and lives until
\* the handler has returned.
RxCall(r) ==
    /\ pc[r] = "calling"
    /\ Len(cur[r].calls) < Len(handlers[AddrA])
    /\ ~Locked(cur[r].convo.v)
    /\ convoLock' = convoLock \cup {[convo |-> cur[r].convo.v, by |-> r]}
    /\ LET h == handlers[AddrA][Len(cur[r].calls) + 1] IN
       /\ invoked' = [invoked EXCEPT ![AddrA] =
                         Append(@, [h |-> h, convo_id |-> cur[r].convo.v.convo_id,
                                    frame |-> RxFrame(r).val.v.frame_type.v])]
       /\ cur' = [cur EXCEPT ![r].calls = Append(@, h)]
    /\ pc' = [pc EXCEPT ![r] = "in_handler"]
    /\ UNCHANGED <<convos, handle, handlers, net, started, tasks, dsPoisoned,
                   statePoisoned, convoPoisoned, creates, sends, faults, seen,
                   last, hnd, dsLock, stateLock, acq, wire>>

\* The handler returns and the guard of the call statement is dropped.
RxReturn(r) ==
    /\ pc[r] = "in_handler"
    /\ convoLock' = convoLock \ {[convo |-> cur[r].convo.v, by |-> r]}
    /\ pc' = [pc EXCEPT ![r] = "calling"]
    /\ UNCHANGED <<convos, handle, handlers, invoked, net, started, tasks,
                   dsPoisoned, statePoisoned, convoPoisoned, creates, sends,
                   faults, seen, last, hnd, dsLock, stateLock, cur, acq, wire>>

\* A handler that locks the conversation it is invoked for (to send a reply
\* on it, say): the Mutex is held, so the handler waits for it.
RxHandlerLocks(r) ==
    /\ pc[r] = "in_handler"
    /\ Locked(cur[r].convo.v)
    /\ pc' = [pc EXCEPT ![r] = "handler_waits"]
    /\ UNCHANGED <<convos, handle, handlers, invoked, net, started, tasks,
                   dsPoisoned, statePoisoned, convoPoisoned, creates, sends,
                   faults, seen, last, hnd, convoLock, dsLock, stateLock, cur,
                   acq, wire>>

\* The iterator is exhausted: the read guard is dropped and handle_envelope
\* returns Ok.
RxDispatchEnd(r) ==
    /\ pc[r] = "calling"
    /\ Len(cur[r].calls) >= Len(handlers[AddrA])
    /\ pc' = [pc EXCEPT ![r] = "idle"]
    /\ last' = Op("recv", AddrA, "Ok", cur[r].bytes, NoId)
    /\ UNCHANGED <<convos, handle, handlers, invoked, net, started, tasks,
                   dsPoisoned, statePoisoned, convoPoisoned, creates, sends,
                   faults, seen, hnd, convoLock, dsLock, stateLock, cur, acq, wire>>

\* The invite branch: create_conversation under the registry write lock.
RxInsert(r) ==
    /\ pc[r] = "insert"
    /\ stateLock = None
    /\ LET addrs == RxFrame(r).val.v.frame_type.v.participants IN
       /\ convos' = [convos EXCEPT ![AddrA] = StateCreateConversation(@, addrs)]
       /\ last' = Op("recv", AddrA, "Ok", cur[r].bytes, topic_private_convo(addrs))
    /\ seen' = [seen EXCEPT ![AddrA] = Count(@, cur[r].bytes)]
    /\ pc' = [pc EXCEPT ![r] = "idle"]
    /\ UNCHANGED <<handle, handlers, invoked, net, started, tasks, dsPoisoned,
                   statePoisoned, convoPoisoned, creates, sends, faults,
                   hnd, convoLock, dsLock, stateLock, cur, acq, wire>>

\* SpecThreads: a's caller threads and receive task step by step; b calls
\* create_conversation and send; the transport is reliable.
NextThreads ==
    \/ tasks[AddrA] = 0 /\ Start(AddrA)
    \/ \E h \in HandlerIds : ThAddContentHandler(h, MaxHandlers)
    \/ CreateConversation(AddrB, AddrA, TRUE)
    \/ \E tag \in Tags, m \in Blobs :
          /\ handle[AddrB].t = "Some"
          /\ ConvoSend(AddrB, handle[AddrB].v, tag, m, TRUE)
    \/ \E t \in Callers :
          \/ ThCreateBegin(t)
          \/ ThCreateEnd(t)
          \/ \E id \in DOMAIN convos[AddrA] : ThGet(t, id)
          \/ ThSendLock(t)
          \/ \E tag \in Tags, m \in Blobs : ThSendDs(t, tag, m)
    \/ RxPoll(Rx)
    \/ RxBlock(Rx)
    \/ RxWake(Rx)
    \/ RxLookup(Rx)
    \/ RxConvoLock(Rx)
    \/ RxConvoDone(Rx)
    \/ RxDispatchBegin(Rx)
    \/ RxCall(Rx)
    \/ RxReturn(Rx)
    \/ RxDispatchEnd(Rx)
    \/ RxInsert(Rx)

SpecThreads == Init /\ [][NextThreads]_vars

\* The steps of a receive task once it has taken a message.
RxStep(r) ==
    \/ RxLookup(r)
    \/ RxConvoLock(r)
    \/ RxConvoDone(r)
    \/ RxDispatchBegin(r)
    \/ RxCall(r)
    \/ RxReturn(r)
    \/ RxDispatchEnd(r)
    \/ RxInsert(r)

\* SpecLive: as SpecThreads with a delivery service whose recv returns
\* without blocking and handlers that return without calling into the
\* client; every thread that can take its next step is scheduled.
NextLive ==
    \/ tasks[AddrA] = 0 /\ Start(AddrA)
    \/ \E h \in HandlerIds : ThAddContentHandler(h, MaxHandlers)
    \/ CreateConversation(AddrB, AddrA, TRUE)
    \/ \E tag \in Tags, m \in Blobs :
          /\ handle[AddrB].t = "Some"
          /\ ConvoSend(AddrB, handle[AddrB].v, tag, m, TRUE)
    \/ \E t \in Callers :
          \/ ThCreateBegin(t)
          \/ ThCreateEnd(t)
          \/ \E id \in DOMAIN convos[AddrA] : ThGet(t, id)
          \/ ThSendLock(t)
          \/ \E tag \in Tags, m \in Blobs : ThSendDs(t, tag, m)
    \/ RxPoll(Rx)
    \/ RxStep(Rx)

\* The turn of caller thread t as the scheduler sees it: inside
\* create_conversation or send, with the delivery-service Mutex free, the
\* thread takes it and finishes the call.  Under NextLive the steps that move
\* pc[t] this way are exactly the ThCreateEnd(t) and ThSendDs(t, ..) steps.
CallerTurn(t) ==
    /\ pc[t] \in {"creating", "sending"}
    /\ dsLock = None
    /\ pc' = [pc EXCEPT ![t] = IF pc[t] = "creating" THEN "ready" ELSE "done"]

\* The places of a receive task.
RxPlaces ==
    {"idle", "got", "found", "recving", "dispatch", "calling", "in_handler", "insert", "dead"}

\* The turn of the receive task as the scheduler sees it: it has taken a
\* message and the lock its next step needs is free.  Under NextLive the
\* steps that move pc[r] from such a place are exactly the RxStep(r) steps.
RxTurn(r) ==
    /\ \/ pc[r] = "got" /\ (RecvEnvelope(cur[r].bytes).ok => stateLock = None)
       \/ pc[r] = "found" /\ ~Locked(cur[r].convo.v)
       \/ pc[r] \in {"recving", "dispatch", "in_handler"}
       \/ pc[r] = "calling"
             /\ (Len(cur[r].calls) < Len(handlers[AddrA]) => ~Locked(cur[r].convo.v))
       \/ pc[r] = "insert" /\ stateLock = None
    /\ \E x \in RxPlaces \ {pc[r]} : pc' = [pc EXCEPT ![r] = x]

SpecLive ==
    /\ Init
    /\ [][NextLive]_vars
    /\ \A t \in Callers : WF_pc(CallerTurn(t))
    /\ WF_pc(RxTurn(Rx))

\* SpecTasks: client a's receive tasks step by step, one for each start()
\* call, while handlers are registered on a; a handler may lock the
\* conversation it is invoked for; b calls create_conversation and send; the
\* transport may deliver a message twice.
NextTasks ==
    \/ Start(AddrA)
    \/ \E h \in 1..MaxDispatchHandlers : ThAddContentHandler(h, MaxDispatchHandlers)
    \/ CreateConversation(AddrB, AddrA, TRUE)
    \/ \E tag \in Tags, m \in Blobs :
          /\ handle[AddrB].t = "Some"
          /\ ConvoSend(AddrB, handle[AddrB].v, tag, m, TRUE)
    \/ \E r \in Receivers :
          \/ RxPoll(r)
          \/ RxPollDuplicate(r)
          \/ RxBlock(r)
          \/ RxWake(r)
          \/ RxLookup(r)
          \/ RxConvoLock(r)
          \/ RxConvoDone(r)
          \/ RxDispatchBegin(r)
          \/ RxCall(r)
          \/ RxReturn(r)
          \/ RxHandlerLocks(r)
          \/ RxDispatchEnd(r)
          \/ RxInsert(r)

SpecTasks == Init /\ [][NextTasks]_vars


(* ---------------------- dispatch to several handlers ------------------- *)
\* SpecDispatch: the clients register up to MaxDispatchHandlers handlers,
\* start, create conversations and send; the transport does not fail or lose,
\* and may deliver a message twice.
NextDispatch ==
    \E c \in Clients :
        \/ Start(c)
        \/ \E h \in 1..MaxDispatchHandlers : PushHandler(c, h, MaxDispatchHandlers)
        \/ CreateConversation(c, Peer(c), TRUE)
        \/ \E tag \in Tags, m \in Blobs :
              /\ handle[c].t = "Some"
              /\ ConvoSend(c, handle[c].v, tag, m, TRUE)
        \/ ReceiveMsg(c)
        \/ ReceiveNone(c)
        \/ ReceiveDuplicate(c)

SpecDispatch == Init /\ [][NextDispatch]_vars


(* ------------------- the legacy send (umbra-types/lib.rs) --------------- *)
\* The messages handed to send: ChatMessage{text, message_id}, Contact, and
\* a ToFrame implementation whose Frame has no frame_type.
ConvoTypes == {"Public", "Session", "Group"}
Texts == {"hello", "hi", "", "a|b", "bye", "secret"}
MessageIds == {"msg1", "msg2", "", "1", "2"}
ChatMessages == {[t |-> "ChatMessage", text |-> x, message_id |-> i] : x \in Texts, i \in MessageIds}
Contacts == {[t |-> "Contact", name |-> x] : x \in Texts}
NoContents == [t |-> "NoContents"]
LegacyMsgs == ChatMessages \cup Contacts \cup {NoContents}

\* impl ToFrame for ChatMessage / Contact
LegacyToFrame(msg) ==
    IF msg.t = "ChatMessage"
    THEN [reliability_info |-> None,
          frame_type |-> [t |-> "ConfidentialFrame",
                          v |-> [type |-> [t |-> "AppFrameV1",
                                           v |-> [payload |-> [t |-> "ChatMsg", v |-> msg]]]]]]
    ELSE IF msg.t = "Contact"
    THEN [reliability_info |-> None,
          frame_type |-> [t |-> "PublicFrameFrame",
                          v |-> [frame_type |-> [t |-> "Contact", v |-> msg]]]]
    ELSE [reliability_info |-> None, frame_type |-> None]

\* The mutant of encrypt_with_symetric_key: the bytes are not reversed.
encrypt_with_symetric_key_clear(frame, key) ==
    [algo |-> [t |-> "Aes256ctr", encrypted_bytes |-> Encode("ConfidentialFrame", frame)]]

\* encrypt_with_symetric_key: the encoded frame, reversed.
encrypt_with_symetric_key(frame, key) ==
    [algo |-> [t |-> "Aes256ctr",
               encrypted_bytes |-> encrypt_reverse(Encode("ConfidentialFrame", frame))]]

\* send(_convo_type, msg): Result<Vec<u8>, String>
LegacySend(convo_type, msg) ==
    LET ee == LegacyToFrame(msg) IN
    IF ee.frame_type.t = "None" THEN Err("Invalid encoding - Missing frame contents")
    ELSE IF ee.frame_type.t = "ConfidentialFrame"
    THEN Ok(Encode("PayloadV1",
                   [msg_id |-> "1",
                    frame_type |-> [t |-> "EncryptedFrame",
                                    v |-> encrypt_with_symetric_key(ee.frame_type.v, <<>>)]]))
    ELSE Ok(Encode("PayloadV1",
                   [msg_id |-> "2",
                    frame_type |-> [t |-> "PublicFrame", v |-> ee.frame_type.v]]))

\* A call of send; `last` keeps the arguments and the result.
LegacySendCall(convo_type, msg) ==
    /\ last' = [op |-> "legacy_send", c |-> AddrA,
                res |-> IF LegacySend(convo_type, msg).ok THEN "Ok" ELSE "Err",
                msg |-> IF LegacySend(convo_type, msg).ok
                        THEN LegacySend(convo_type, msg).val ELSE NoMsg,
                id |-> NoId,
                arg |-> [convo_type |-> convo_type, msg |-> msg]]
    /\ UNCHANGED <<convos, handle, handlers, invoked, net, started, tasks,
                   dsPoisoned, statePoisoned, convoPoisoned, creates, sends,
                   faults, seen>>
    /\ UNCHANGED threadVars

\* SpecLegacy: send is called with every convo type and message.
NextLegacy == \E convo_type \in ConvoTypes, msg \in LegacyMsgs : LegacySendCall(convo_type, msg)

SpecLegacy == Init /\ [][NextLegacy]_vars


(* ================================ claims ================================ *)
\* The join of the participants as listed, without the sort.
ListedId(addrs) == PrivatePrefix \o Join(addrs, <<"|">>)

\* The ids a pair of addresses can be given, in either order.
PairIds(x, y) == {ListedId(<<x, y>>), ListedId(<<y, x>>)}

\* The participants an applied invite envelope lists.
InviteParticipants(bytes) ==
    bytes.val.payload_bytes.val.encrypted_bytes.v.encryption.bytes.val.frame_type.v.participants

\* C1: every mutation of the registry is insert-if-absent: an id that is
\* registered keeps the very instance registered under it, whatever
\* operation runs (start, create_conversation, an inbound invite).
C1_InsertIfAbsent ==
    [][\A c \in Clients : \A id \in DOMAIN convos[c] :
          id \in DOMAIN convos'[c] /\ convos'[c][id] = convos[c][id]]_vars

\* C2: delivering an invite envelope that the client has already applied
\* leaves the set of registered ids as it was, and the pair the invite names
\* has exactly one registered conversation.
C2_InviteIdempotent ==
    /\ [][\A c \in Clients :
            (last'.op = "recv" /\ last'.c = c /\ last'.msg \in DOMAIN seen[c])
                => DOMAIN convos'[c] = DOMAIN convos[c]]_vars
    /\ [](\A c \in Clients : \A m \in DOMAIN seen[c] :
            LET p == InviteParticipants(m) IN
            Len(p) = 2 =>
                Cardinality(DOMAIN convos[c] \cap PairIds(p[1], p[2])) = 1)

\* C2 witness: a client has applied one and the same invite envelope twice.
C2_Witness ==
    \E c \in Clients : \E m \in DOMAIN seen[c] :
        /\ seen[c][m] >= 2
        /\ last.op = "recv" /\ last.c = c /\ last.msg = m /\ last.res = "Ok"

Addresses == {<<"a">>, <<"b">>, <<"a", "b">>, <<"a", "|">>}

\* C3: the private id of [x, y] is the private id of [y, x], and the ids two
\* peers register for their pair, whoever initiates, are the same id.
C3_IdSymmetry ==
    /\ \A x \in Addresses, y \in Addresses :
          topic_private_convo(<<x, y>>) = topic_private_convo(<<y, x>>)
    /\ \A ida \in DOMAIN convos[AddrA] \cap PairIds(AddrA, AddrB) :
          \A idb \in DOMAIN convos[AddrB] \cap PairIds(AddrA, AddrB) : ida = idb

\* C3 witness: a initiated, b registered the conversation from a's invite, and
\* both hold it under one id.
C3_Witness ==
    /\ topic_private_convo(<<AddrA, AddrB>>) \in DOMAIN convos[AddrA]
    /\ handle[AddrA] = Some(convos[AddrA][topic_private_convo(<<AddrA, AddrB>>)])
    /\ SendFrameBytes(topic_inbox_convo(AddrB), InviteFrame(<<AddrA, AddrB>>))
          \in DOMAIN seen[AddrB]
    /\ topic_private_convo(<<AddrB, AddrA>>) \in DOMAIN convos[AddrB]

IdAB == topic_private_convo(<<AddrA, AddrB>>)

\* How often handler h of client c was invoked with (id, content_frame).
InvCount(c, h, id, content_frame) ==
    Cardinality({i \in 1..Len(invoked[c]) :
                    invoked[c][i] = [h |-> h, convo_id |-> id, frame |-> content_frame]})

\* a has just sent (tag, m) on its conversation with b, and b is started with
\* handler h registered.
SentToB(h, tag, m) ==
    /\ last = Op("send", AddrA, "Ok", PrivateSendBytes(IdAB, tag, m), IdAB)
    /\ tasks[AddrB] > 0
    /\ \E i \in 1..Len(handlers[AddrB]) : handlers[AddrB][i] = h

\* C4: end to end over a reliable transport: once a has called
\* create_conversation(b) and sent a content frame, b's registered handler is
\* eventually invoked with (private_id(a, b), the frame), and never more often
\* than a sent; b sends nothing for that.
C4_EndToEnd ==
    /\ [](\A h \in HandlerIds, tag \in Tags, m \in Blobs :
            InvCount(AddrB, h, IdAB, ContentFrameOf(tag, m)) <= sends[AddrA])
    /\ \A h \in HandlerIds, tag \in Tags, m \in Blobs, n \in 0..MaxSends :
          (SentToB(h, tag, m) /\ InvCount(AddrB, h, IdAB, ContentFrameOf(tag, m)) = n)
              ~> (InvCount(AddrB, h, IdAB, ContentFrameOf(tag, m)) > n)

\* C4 witness: a sent one frame, b's handler ran exactly once for it, and b
\* never called create_conversation or send.
C4_Witness ==
    /\ sends[AddrA] = 1 /\ sends[AddrB] = 0 /\ creates = 1
    /\ handle[AddrB] = None
    /\ invoked[AddrB] = <<[h |-> 1, convo_id |-> IdAB, frame |-> ContentFrameOf(5, "hi")]>>

\* The bytes a client's own encoder produces for client c's registry: an
\* invite for c's inbox, or content for a conversation c has registered.
WellFormedInvite(c, bytes) ==
    \E p \in InviteLists(c) : bytes = SendFrameBytes(topic_inbox_convo(c), InviteFrame(p))

WellFormedContent(c, bytes) ==
    \E id \in DOMAIN convos[c], tag \in Tags, m \in Blobs :
        /\ convos[c][id].kind = "Private"
        /\ bytes = PrivateSendBytes(id, tag, m)

\* Bytes that fail at some layer of UmbraClient::recv: no tagged payload, a
\* reserved tag, no envelope, no encrypted bytes, and for a registered hint
\* no encryption, another variant, or no frame or an empty one inside.
Corrupted(c, bytes) ==
    /\ bytes \in Crafted(c)
    /\ ~WellFormedInvite(c, bytes)
    /\ ~WellFormedContent(c, bytes)
    /\ \/ bytes.kind # "TaggedPayload"
       \/ bytes.val.tag # 1
       \/ bytes.val.payload_bytes.kind # "Envelope"
       \/ bytes.val.payload_bytes.val.encrypted_bytes.t = "None"
       \/ /\ bytes.val.payload_bytes.val.conversation_id \in DOMAIN convos[c]
          /\ LET enc == bytes.val.payload_bytes.val.encrypted_bytes.v.encryption
                 kind == convos[c][bytes.val.payload_bytes.val.conversation_id].kind
             IN \/ enc.t = "None"
                \/ enc.t # (IF kind = "Private" THEN "Reversed" ELSE "Plaintext")
                \/ enc.bytes.kind # "Frame"
                \/ enc.bytes.rev # (kind = "Private")
                \/ enc.bytes.val.frame_type.t = "None"

\* C5: a corrupted payload never ends the receive loop and reaches no
\* handler, and well-formed content delivered to a registered conversation
\* is dispatched to every handler.
C5_BadMessageSurvived ==
    [][\A c \in Clients :
          (last'.op = "recv" /\ last'.c = c /\ last'.res # "None") =>
              /\ Corrupted(c, last'.msg) =>
                    (tasks'[c] = tasks[c] /\ invoked'[c] = invoked[c])
              /\ WellFormedContent(c, last'.msg) =>
                    Len(invoked'[c]) = Len(invoked[c]) + Len(handlers[c])]_vars

\* C6: a tagged payload with a reserved or unknown tag is skipped: the
\* receive task logs an error and goes on.
C6_ReservedTagSkipped ==
    [][\A c \in Clients :
          (/\ last'.op = "recv" /\ last'.c = c
           /\ last'.msg.kind = "TaggedPayload"
           /\ PayloadTagsFrom(last'.msg.val.tag) # "TagEnvelope")
              => (last'.res # "Panic" /\ tasks'[c] = tasks[c])]_vars

\* C7: a failed recv of the delivery service (PollError) does not end the
\* receive task.
C7_PollErrorSurvived ==
    [][\A c \in Clients :
          (last'.op = "recv" /\ last'.c = c /\ last'.res = "PollError")
              => tasks'[c] = tasks[c]]_vars

\* C8: when the delivery service's send fails, the conversation's send and
\* create_conversation hand a PublishError back to the caller.
C8_SendFailurePropagated ==
    [][(last'.op \in {"send", "v1_send", "create_conversation"} /\ faults' = faults + 1)
          => last'.res = "PublishError"]_vars

\* C9: send on an Inbox conversation panics, for every tag and message, and
\* hands nothing to the delivery service.
C9_InboxSendFatal ==
    [][\A c \in Clients :
          (/\ last'.op = "send" /\ last'.c = c
           /\ handle[c].t = "Some" /\ handle[c].v.kind = "Inbox")
              => (last'.res = "Panic" /\ net' = net)]_vars

\* C9 witness: a caller has sent on its inbox conversation.
C9_Witness ==
    \E c \in Clients :
        /\ last = Op("send", c, "Panic", NoMsg, topic_inbox_convo(c))
        /\ handle[c].t = "Some" /\ handle[c].v.kind = "Inbox"
        /\ handle[c].v \in convoPoisoned[c]

\* The variant a conversation of this kind decrypts.
ExpectedVariant(kind) == IF kind = "Private" THEN "Reversed" ELSE "Plaintext"

\* bytes is an envelope for a conversation registered at c whose encryption
\* is present and of the variant the conversation does not expect.
Mismatched(c, bytes) ==
    /\ bytes.kind = "TaggedPayload" /\ ~bytes.rev
    /\ bytes.val.tag = 1
    /\ bytes.val.payload_bytes.kind = "Envelope" /\ ~bytes.val.payload_bytes.rev
    /\ LET envelope == bytes.val.payload_bytes.val IN
       /\ envelope.encrypted_bytes.t = "Some"
       /\ envelope.conversation_id \in DOMAIN convos[c]
       /\ convos[c][envelope.conversation_id] \notin convoPoisoned[c]
       /\ envelope.encrypted_bytes.v.encryption.t \in {"Plaintext", "Reversed"}
       /\ envelope.encrypted_bytes.v.encryption.t
              # ExpectedVariant(convos[c][envelope.conversation_id].kind)

IsEnvelope(bytes) ==
    /\ bytes.kind = "TaggedPayload" /\ ~bytes.rev
    /\ bytes.val.tag = 1
    /\ bytes.val.payload_bytes.kind = "Envelope" /\ ~bytes.val.payload_bytes.rev

\* C11: an absent encryption field is answered with DecodingError by every
\* conversation's decrypt (the Private and Inbox conversations of client.rs
\* and the Private conversation of convos/private.rs), and an envelope with
\* no encrypted bytes is answered with DecodingError whatever its hint is;
\* the receive task goes on.
C11_AbsentEncryption ==
    [][/\ \A c \in Clients :
             (last'.op = "recv" /\ last'.c = c /\ last'.res # "None" /\ IsEnvelope(last'.msg))
                 => LET envelope == last'.msg.val.payload_bytes.val IN
                    /\ envelope.encrypted_bytes.t = "None"
                          => (last'.res = "DecodingError" /\ tasks'[c] = tasks[c])
                    /\ (/\ envelope.encrypted_bytes.t = "Some"
                        /\ envelope.encrypted_bytes.v.encryption.t = "None"
                        /\ ~statePoisoned[c]
                        /\ envelope.conversation_id \in DOMAIN convos[c]
                        /\ convos[c][envelope.conversation_id] \notin convoPoisoned[c])
                          => (last'.res = "DecodingError" /\ tasks'[c] = tasks[c])
       /\ (last'.op = "v1_recv" /\ last'.msg.val.encryption.t = "None")
             => last'.res = "DecodingError"]_vars

\* bytes is an envelope whose hint is registered at c with the given kind
\* (and usable), carrying the given variant around an encoded Frame.
FrameEnvelopeFor(c, bytes, kind, variant) ==
    /\ IsEnvelope(bytes)
    /\ ~statePoisoned[c]
    /\ LET envelope == bytes.val.payload_bytes.val IN
       /\ envelope.conversation_id \in DOMAIN convos[c]
       /\ convos[c][envelope.conversation_id].kind = kind
       /\ convos[c][envelope.conversation_id] \notin convoPoisoned[c]
       /\ envelope.encrypted_bytes.t = "Some"
       /\ envelope.encrypted_bytes.v.encryption.t = variant
       /\ envelope.encrypted_bytes.v.encryption.bytes.kind = "Frame"
       /\ envelope.encrypted_bytes.v.encryption.bytes.rev = (variant = "Reversed")

\* The frame_type of the Frame inside such an envelope.
FrameTypeIn(bytes) ==
    bytes.val.payload_bytes.val.encrypted_bytes.v.encryption.bytes.val.frame_type

\* C12: a Content frame that arrives on the client's own inbox hint is
\* dropped: the call ends Ok, no handler is invoked, no conversation is
\* registered and the receive task goes on.
C12_InboxDropsContent ==
    [][\A c \in Clients :
          (/\ last'.op = "recv" /\ last'.c = c /\ last'.res # "None"
           /\ FrameEnvelopeFor(c, last'.msg, "Inbox", "Plaintext")
           /\ FrameTypeIn(last'.msg).t = "Content")
              => /\ last'.res = "Ok"
                 /\ invoked'[c] = invoked[c]
                 /\ convos'[c] = convos[c]
                 /\ tasks'[c] = tasks[c]]_vars

\* C12 witness: b, started and with a handler, has received a well-formed
\* Content frame on /inbox/b.
C12_Witness ==
    /\ handlers[AddrB] # <<>>
    /\ tasks[AddrB] > 0
    /\ topic_inbox_convo(AddrB) \in DOMAIN convos[AddrB]
    /\ last = Op("recv", AddrB, "Ok",
                 EnvelopeBytes(topic_inbox_convo(AddrB),
                     Some(EncOf("Plaintext", Encode("Frame", ContentFrameMsg(5, "hi"))))),
                 NoId)

\* C13: a ConversationInvite frame that arrives in an envelope addressed to
\* a registered Private conversation causes no further action: the registry
\* is unchanged and no handler is invoked.
C13_InviteOnlyOnInbox ==
    [][\A c \in Clients :
          (/\ last'.op = "recv" /\ last'.c = c /\ last'.res # "None"
           /\ FrameEnvelopeFor(c, last'.msg, "Private", "Reversed")
           /\ FrameTypeIn(last'.msg).t = "ConversationInvite")
              => /\ convos'[c] = convos[c]
                 /\ invoked'[c] = invoked[c]]_vars

\* C15: at most one receive task runs per client, whatever the number of
\* start() calls, and the self Inbox conversation is registered whenever a
\* receive task runs.
C15_OneReceiveTask ==
    \A c \in Clients :
        /\ tasks[c] <= 1
        /\ tasks[c] > 0 => topic_inbox_convo(c) \in DOMAIN convos[c]

\* The place of caller thread t's send in the order of acquisition.
AcqIndex(t) == CHOOSE i \in 1..Len(acq) : acq[i].t = t

\* C14: two sends on the same conversation id reach the delivery service in
\* the order in which their calls locked the conversation.
C14_SendOrder ==
    \A i \in 1..Len(wire), j \in 1..Len(wire) :
        (i < j /\ wire[i].convo_id = wire[j].convo_id)
            => AcqIndex(wire[i].t) < AcqIndex(wire[j].t)

\* C16: the receive task's recv and a caller's send never execute at the same
\* time for the same conversation id.
C16_SendRecvSerialized ==
    \A t \in Callers :
        ~(/\ pc[t] = "sending"
          /\ pc[Rx] = "recving"
          /\ hnd[t].v.convo_id = cur[Rx].convo.v.convo_id)

\* The receive task is suspended inside a recv that blocks, with nothing to
\* return.
RxSuspended == pc[Rx] = "in_recv" /\ net[AddrA] = <<>>

\* C17: while the receive task is suspended inside a blocking recv, no
\* caller is held up inside create_conversation or send, and the registry
\* is free for get_conversation.
C17_CallersNotBlocked ==
    RxSuspended => /\ \A t \in Callers : pc[t] \notin {"creating", "sending"}
                   /\ stateLock = None

\* The EncryptedBytes inside the wire bytes of a client.rs send, and inside
\* those of a convos/private.rs send (an Envelope without the tagged payload).
EncIn(bytes) == bytes.val.payload_bytes.val.encrypted_bytes.v
V1EncIn(bytes) == bytes.val.encrypted_bytes.v

\* The same EncryptedBytes under the other variant.
OtherVariant(enc) ==
    [encryption |-> [enc.encryption EXCEPT
                        !.t = IF @ = "Reversed" THEN "Plaintext" ELSE "Reversed"]]

\* C18: the envelopes of a Private conversation's send carry the cipher
\* variant and never Plaintext, the invite envelopes of create_conversation
\* carry Plaintext, and the Private conversation's recv accepts the variant
\* its send produced and rejects the other one.
C18_VariantByKind ==
    /\ (last.op = "send" /\ last.msg # NoMsg)
          => /\ EncIn(last.msg).encryption.t = "Reversed"
             /\ PrivateRecv(EncIn(last.msg)).ok
             /\ ~PrivateRecv(OtherVariant(EncIn(last.msg))).ok
    /\ last.op = "v1_send"
          => /\ V1EncIn(last.msg).encryption.t = "Reversed"
             /\ V1Recv(V1EncIn(last.msg)).ok
             /\ ~V1Recv(OtherVariant(V1EncIn(last.msg))).ok
    /\ (last.op = "create_conversation" /\ last.msg # NoMsg)
          => EncIn(last.msg).encryption.t = "Plaintext"

\* rb is the encoding of a ReliableBytes for conversation id whose message_id
\* is the hash of the serialized frame it carries.
IsReliable(rb, id) ==
    /\ rb.kind = "ReliableBytes" /\ ~rb.rev
    /\ rb.val.content.t = "Some"
    /\ rb.val.message_id = hash_to_string(rb.val.content.v)
    /\ rb.val.channel_id = id

\* C19: what a Private conversation's send encrypts is a ReliableBytes with
\* message_id the hash of the serialized frame and channel_id the
\* conversation id, in client.rs and in convos/private.rs; the message_id is
\* then a function of the conversation, tag and bytes.
C19_ReliableBytesWrap ==
    /\ (last.op = "send" /\ last.msg # NoMsg)
          => IsReliable(decrypt_reverse(EncIn(last.msg).encryption.bytes), last.id)
    /\ last.op = "v1_send"
          => /\ IsReliable(V1EncIn(last.msg).encryption.bytes, last.id)
             /\ \E tag \in Tags, m \in Blobs :
                   V1EncIn(last.msg).encryption.bytes.val.message_id =
                       hash_to_string(Encode("PrivateV1Frame",
                                             V1ContentFrame(last.id, tag, m)))

\* The handler calls a Content frame (tag, message) of conversation id makes
\* at client c.
ExpectedCalls(c, id, tag, message) ==
    [i \in 1..Len(handlers[c]) |->
        [h |-> handlers[c][i], convo_id |-> id, frame |-> ContentFrameOf(tag, message)]]

\* C20: the wire bytes of a Private conversation's send, fed to the receive
\* path, decode to an envelope whose hint is the sending conversation's id
\* and whose frame is Content with domain 0 and the tag and bytes sent; a
\* client that has the id registered hands exactly that frame to its handlers.
C20_RoundTrip ==
    /\ [](\A tag \in Tags, m \in Blobs,
            id \in {IdAB, topic_private_convo(<<AddrC, AddrA>>)} :
            LET e == RecvEnvelope(PrivateSendBytes(id, tag, m)) IN
            /\ e.ok
            /\ e.val.conversation_id = id
            /\ PrivateRecv(e.val.encrypted_bytes.v) = Ok(Some(ContentFrameMsg(tag, m)))
            /\ ContentFrameMsg(tag, m).frame_type.v = [domain |-> 0, tag |-> tag, bytes |-> m])
    /\ [][\A c \in Clients : \A id \in DOMAIN convos[c], tag \in Tags, m \in Blobs :
             (/\ last'.op = "recv" /\ last'.c = c
              /\ last'.msg = PrivateSendBytes(id, tag, m)
              /\ convos[c][id].kind = "Private"
              /\ ~statePoisoned[c]
              /\ convos[c][id] \notin convoPoisoned[c])
                 => /\ last'.res = "Ok"
                    /\ invoked'[c] = invoked[c] \o ExpectedCalls(c, id, tag, m)]_vars

\* C20 witness: b, with the conversation registered and a handler, has
\* received the bytes a's send produced and its handler got the frame.
C20_Witness ==
    /\ last = Op("recv", AddrB, "Ok", PrivateSendBytes(IdAB, 5, "hi"), NoId)
    /\ IdAB \in DOMAIN convos[AddrB]
    /\ sends[AddrA] = 1
    /\ invoked[AddrB] # <<>>
    /\ invoked[AddrB][Len(invoked[AddrB])] =
           [h |-> 1, convo_id |-> IdAB, frame |-> ContentFrameOf(5, "hi")]

\* C21: create_conversation(remote) registers a Private conversation under
\* the private id of {local, remote}; when it succeeds it returns the
\* conversation registered under that id and has handed the delivery service
\* exactly one envelope: a Plaintext invite listing both participants, with
\* hint "/inbox/{remote}".
C21_CreateConversation ==
    [][\A c \in Clients :
          (/\ last'.op = "create_conversation" /\ last'.c = c
           /\ last'.res \in {"Ok", "PublishError"})
              => LET id == PrivatePrefix \o Join(SortStrings(<<c, Peer(c)>>), <<"|">>) IN
                 /\ last'.id = id
                 /\ id \in DOMAIN convos'[c]
                 /\ convos'[c][id].kind = "Private"
                 /\ convos'[c][id].convo_id = id
                 /\ DOMAIN convos'[c] = DOMAIN convos[c] \cup {id}
                 /\ last'.res = "PublishError" => net' = net /\ handle' = handle
                 /\ last'.res = "Ok" =>
                       /\ handle'[c] = Some(convos'[c][id])
                       /\ net'[c] = net[c]
                       /\ net'[Peer(c)] = Append(net[Peer(c)], last'.msg)
                       /\ IsEnvelope(last'.msg)
                       /\ last'.msg.val.payload_bytes.val.conversation_id
                              = InboxPrefix \o Peer(c)
                       /\ EncIn(last'.msg).encryption.t = "Plaintext"
                       /\ EncIn(last'.msg).encryption.bytes.kind = "Frame"
                       /\ ~EncIn(last'.msg).encryption.bytes.rev
                       /\ FrameTypeIn(last'.msg)
                              = [t |-> "ConversationInvite",
                                 v |-> [participants |-> <<c, Peer(c)>>]]]_vars

\* C21 witness: a's create_conversation(b) has succeeded: the conversation
\* is registered and returned and the invite is the last thing sent to b.
C21_Witness ==
    /\ last.op = "create_conversation" /\ last.c = AddrA /\ last.res = "Ok"
    /\ IdAB \in DOMAIN convos[AddrA]
    /\ handle[AddrA] = Some(convos[AddrA][IdAB])
    /\ net[AddrB] # <<>>
    /\ net[AddrB][Len(net[AddrB])] = last.msg

\* C22: an inbound message that fails at a decode layer changes nothing: the
\* registry, the conversations' locks and the handler list are afterwards
\* what they were, and no handler is invoked.
C22_FailureIsolation ==
    [][\A c \in Clients :
          (/\ last'.op = "recv" /\ last'.c = c /\ last'.res # "None"
           /\ last'.res = "DecodingError" \/ Corrupted(c, last'.msg))
              => /\ convos' = convos
                 /\ handlers' = handlers
                 /\ invoked' = invoked
                 /\ convoPoisoned' = convoPoisoned
                 /\ statePoisoned' = statePoisoned
                 /\ handle' = handle]_vars

\* C22 witness: b, with the conversation registered and a handler, has
\* received an envelope for it whose Reversed bytes are no Frame.
C22_Witness ==
    /\ IdAB \in DOMAIN convos[AddrB]
    /\ handlers[AddrB] # <<>>
    /\ last = Op("recv", AddrB, "DecodingError",
                 EnvelopeBytes(IdAB, Some(EncOf("Reversed", Garbage))), NoId)

\* C23: the legacy send puts a ChatMessage on the wire as an encrypted frame
\* whose bytes are the reversed encoding of its confidential frame, never as
\* a public frame or as the readable encoding; it puts a Contact on the wire
\* as a public frame; it returns Ok for both, and Err for a frame without
\* contents.
C23_LegacySend ==
    last.op = "legacy_send" =>
        /\ last.arg.msg.t = "ChatMessage" =>
              /\ last.res = "Ok"
              /\ last.msg.kind = "PayloadV1"
              /\ last.msg.val.frame_type.t = "EncryptedFrame"
              /\ last.msg.val.frame_type.v.algo.t = "Aes256ctr"
              /\ last.msg.val.frame_type.v.algo.encrypted_bytes.rev
              /\ Decode("ConfidentialFrame", last.msg.val.frame_type.v.algo.encrypted_bytes).ok = FALSE
              /\ Decode("ConfidentialFrame",
                        decrypt_reverse(last.msg.val.frame_type.v.algo.encrypted_bytes))
                    = Ok([type |-> [t |-> "AppFrameV1",
                                    v |-> [payload |-> [t |-> "ChatMsg", v |-> last.arg.msg]]]])
        /\ last.arg.msg.t = "Contact" =>
              /\ last.res = "Ok"
              /\ last.msg.kind = "PayloadV1"
              /\ last.msg.val.frame_type
                    = [t |-> "PublicFrame",
                       v |-> [frame_type |-> [t |-> "Contact", v |-> last.arg.msg]]]
        /\ last.arg.msg.t = "NoContents" => last.res = "Err"

\* C23 witness: send(ConvoType::Session, ChatMessage{"hello", "msg1"}) has
\* returned Ok with an encrypted frame.
C23_Witness ==
    /\ last.op = "legacy_send"
    /\ last.arg = [convo_type |-> "Session",
                   msg |-> [t |-> "ChatMessage", text |-> "hello", message_id |-> "msg1"]]
    /\ last.res = "Ok"
    /\ last.msg.val.frame_type.t = "EncryptedFrame"

\* C24: when a client takes the envelope of a Content frame for a registered
\* Private conversation, the call ends Ok and every handler registered at
\* that moment is invoked exactly once, in registration order, with the id
\* the envelope was routed by (its hint, which is the conversation's
\* convo_id) and the decoded content frame; nothing else is invoked.
C24_Dispatch ==
    [][\A c \in Clients :
          (/\ last'.op = "recv" /\ last'.c = c /\ last'.res # "None"
           /\ FrameEnvelopeFor(c, last'.msg, "Private", "Reversed")
           /\ FrameTypeIn(last'.msg).t = "Content")
              => LET hint == last'.msg.val.payload_bytes.val.conversation_id IN
                 /\ last'.res = "Ok"
                 /\ convos[c][hint].convo_id = hint
                 /\ handlers'[c] = handlers[c]
                 /\ invoked'[c] = invoked[c] \o
                       [i \in 1..Len(handlers[c]) |->
                           [h |-> handlers[c][i], convo_id |-> hint,
                            frame |-> FrameTypeIn(last'.msg).v]]]_vars

\* C24 witness: b has two handlers registered and has dispatched a's content
\* frame to both, first registered first.
C24_Witness ==
    /\ last.op = "recv" /\ last.c = AddrB /\ last.res = "Ok"
    /\ handlers[AddrB] = <<1, 2>>
    /\ \E tag \in Tags, m \in Blobs :
          /\ last.msg = PrivateSendBytes(IdAB, tag, m)
          /\ invoked[AddrB] = <<[h |-> 1, convo_id |-> IdAB, frame |-> ContentFrameOf(tag, m)],
                                [h |-> 2, convo_id |-> IdAB, frame |-> ContentFrameOf(tag, m)]>>

\* Receive task r has taken a message and has not finished processing it.
Busy(r) == pc[r] \in {"got", "found", "recving", "dispatch", "insert"} \/ InLoop(r)

\* C25: inbound messages are processed one at a time in the order recv
\* returned them: while a receive task is processing message n (its handler
\* calls included), no later message has been taken from the transport.
C25_OneAtATime ==
    \A r1 \in Receivers, r2 \in Receivers :
        (r1 # r2 /\ Busy(r1)) => cur[r2].n < cur[r1].n

ContentFor(c, bytes) ==
    /\ FrameEnvelopeFor(c, bytes, "Private", "Reversed")
    /\ FrameTypeIn(bytes).t = "Content"

\* bytes is the envelope of a Content frame under the cipher variant.
ContentEnvelope(bytes) ==
    /\ IsEnvelope(bytes)
    /\ bytes.val.payload_bytes.val.encrypted_bytes.t = "Some"
    /\ EncIn(bytes).encryption.t = "Reversed"
    /\ EncIn(bytes).encryption.bytes.kind = "Frame"
    /\ EncIn(bytes).encryption.bytes.rev
    /\ FrameTypeIn(bytes).t = "Content"

\* The handler calls of c for the Content frame inside bytes.
CallsFor(c, bytes) ==
    [i \in 1..Len(handlers[c]) |->
        [h |-> handlers[c][i],
         convo_id |-> bytes.val.payload_bytes.val.conversation_id,
         frame |-> FrameTypeIn(bytes).v]]

\* C27: nothing is buffered or reordered by the client.  Handlers are invoked
\* only in the receive step that takes a content envelope whose conversation
\* is registered at that moment, and only for that envelope; a content
\* envelope taken before its conversation is registered invokes nothing and
\* registers nothing (so processing the invite later dispatches nothing); and
\* every receive step on a registered conversation's content envelope
\* dispatches it, also when the same bytes were dispatched before.
C27_NoBuffering ==
    [][\A c \in Clients :
          /\ invoked'[c] # invoked[c]
                => /\ last'.op = "recv" /\ last'.c = c /\ last'.res = "Ok"
                   /\ ContentFor(c, last'.msg)
                   /\ invoked'[c] = invoked[c] \o CallsFor(c, last'.msg)
          /\ (/\ last'.op = "recv" /\ last'.c = c /\ last'.res # "None"
              /\ ContentEnvelope(last'.msg)
              /\ ~statePoisoned[c]
              /\ last'.msg.val.payload_bytes.val.conversation_id \notin DOMAIN convos[c])
                => /\ last'.res = "Ok"
                   /\ invoked'[c] = invoked[c]
                   /\ convos'[c] = convos[c]
          /\ (/\ last'.op = "recv" /\ last'.c = c /\ last'.res # "None"
              /\ ContentFor(c, last'.msg))
                => invoked'[c] = invoked[c] \o CallsFor(c, last'.msg)]_vars

\* C27 witness: the transport has handed b the content envelope before the
\* invite, which is still queued: b, with a handler registered, has dropped
\* the content.
C27_Witness ==
    /\ handlers[AddrB] # <<>>
    /\ invoked[AddrB] = <<>>
    /\ IdAB \notin DOMAIN convos[AddrB]
    /\ net[AddrB] = <<SendFrameBytes(topic_inbox_convo(AddrB), InviteFrame(<<AddrA, AddrB>>))>>
    /\ \E tag \in Tags, m \in Blobs :
          last = Op("recv", AddrB, "Ok", PrivateSendBytes(IdAB, tag, m), NoId)

\* s is an initial part of t.
IsPrefix(s, t) == Len(s) <= Len(t) /\ SubSeq(t, 1, Len(s)) = s

\* C28: a dispatch sees one handler list.  While a receive task is in the
\* handler loop the list does not change (add_content_handler waits for the
\* loop to end), the handlers called so far are an initial part of it, and
\* at the end of the loop the handlers called for the frame are exactly the
\* list; a handler is only ever appended, so it is called for every frame
\* dispatched after it was appended.
C28_HandlerSnapshot ==
    [][/\ (\E r \in Receivers : InLoop(r)) => handlers'[AddrA] = handlers[AddrA]
       /\ IsPrefix(handlers[AddrA], handlers'[AddrA])
       /\ \A r \in Receivers :
             /\ InLoop(r) => IsPrefix(cur[r].calls, handlers[AddrA])
             /\ (pc[r] = "calling" /\ pc'[r] = "idle") => cur[r].calls = handlers[AddrA]
             /\ (pc[r] = "dispatch" /\ pc'[r] = "calling") => cur[r].calls = <<>>]_vars

\* C28 witness: handler 2 was appended after the dispatch of one frame, for
\* which handler 1 alone was called, and both were called for the frame
\* taken after it.
C28_Witness ==
    /\ handlers[AddrA] = <<1, 2>>
    /\ pc[Rx] = "idle" /\ pc[Rx2] = "idle"
    /\ cur[Rx].calls = <<1>>
    /\ cur[Rx2].calls = <<1, 2>>
    /\ cur[Rx2].n > cur[Rx].n
    /\ Len(invoked[AddrA]) = 3

\* id begins with prefix.
HasPrefix(id, prefix) == Len(id) >= Len(prefix) /\ SubSeq(id, 1, Len(prefix)) = prefix

\* C29: every registry key is the convo_id of the conversation stored under
\* it, a key in the "/inbox/" namespace holds an Inbox conversation and a key
\* in the "/private/" namespace a Private one; no private id is an inbox id,
\* and a receive step (an invite included) never replaces the client's inbox
\* conversation.
C29_Namespacing ==
    /\ [](\A c \in Clients : \A id \in DOMAIN convos[c] :
            /\ convos[c][id].convo_id = id
            /\ HasPrefix(id, InboxPrefix) => convos[c][id].kind = "Inbox"
            /\ HasPrefix(id, PrivatePrefix) => convos[c][id].kind = "Private"
            /\ HasPrefix(id, InboxPrefix) \/ HasPrefix(id, PrivatePrefix))
    /\ [](\A x \in Addresses, y \in Addresses, z \in Addresses :
            /\ topic_private_convo(<<x, y>>) # topic_inbox_convo(z)
            /\ topic_private_convo(<<x>>) # topic_inbox_convo(z)
            /\ topic_private_convo(<<>>) # topic_inbox_convo(z))
    /\ [][\A c \in Clients :
            (last'.op = "recv" /\ last'.c = c /\ topic_inbox_convo(c) \in DOMAIN convos[c])
               => /\ topic_inbox_convo(c) \in DOMAIN convos'[c]
                  /\ convos'[c][topic_inbox_convo(c)] = convos[c][topic_inbox_convo(c)]]_vars

\* C29 witness: b has applied a crafted invite that lists c and b; its
\* registry holds its inbox and the private conversation.
C29_Witness ==
    /\ last.op = "recv" /\ last.c = AddrB /\ last.res = "Ok"
    /\ last.id = topic_private_convo(<<AddrC, AddrB>>)
    /\ topic_inbox_convo(AddrB) \in DOMAIN convos[AddrB]
    /\ convos[AddrB][topic_inbox_convo(AddrB)].kind = "Inbox"
    /\ topic_private_convo(<<AddrC, AddrB>>) \in DOMAIN convos[AddrB]
    /\ convos[AddrB][topic_private_convo(<<AddrC, AddrB>>)].kind = "Private"

\* C30: the set of ids registered at a client only grows: no step
\* (create_conversation, start, a receive step on any bytes, a send that
\* fails or succeeds, a transport fault) removes an id from its registry.
C30_IdsOnlyGrow ==
    [][\A c \in Clients : DOMAIN convos[c] \subseteq DOMAIN convos'[c]]_vars

\* C30 witness: a's send on its conversation with b has failed, b has been
\* started and has applied a's invite; both registries still hold every id
\* registered so far.
C30_Witness ==
    /\ last.op = "send" /\ last.c = AddrA /\ last.res = "Panic" /\ last.id = IdAB
    /\ dsPoisoned[AddrA]
    /\ IdAB \in DOMAIN convos[AddrA]
    /\ topic_inbox_convo(AddrA) \in DOMAIN convos[AddrA]
    /\ DOMAIN convos[AddrB] = {topic_inbox_convo(AddrB), IdAB}

\* C31: every Private conversation registered at a client is the
\* conversation of a pair of addresses one of which is the client's own: its
\* id is the private id of such a pair.
C31_OwnPairOnly ==
    \A c \in Clients : \A id \in DOMAIN convos[c] :
        convos[c][id].kind = "Private"
            => \E x \in {AddrA, AddrB, AddrC} : id = topic_private_convo(<<c, x>>)

\* C32: a create_conversation that returns PublishError, the invite not
\* having been sent, leaves the caller's registry as it was before the call.
C32_CreateAtomic ==
    [][\A c \in Clients :
          (last'.op = "create_conversation" /\ last'.c = c /\ last'.res = "PublishError")
              => convos'[c] = convos[c]]_vars

\* C33: while a content handler runs, or waits for the conversation it was
\* invoked for, the receive task that called it holds no conversation Mutex.
C33_HandlerLockFree ==
    \A r \in Receivers :
        pc[r] \in {"in_handler", "handler_waits"} => \A l \in convoLock : l.by # r

\* Thread t waits for a lock that thread u holds: the delivery-service Mutex
\* inside create_conversation or send, a conversation Mutex before send, recv
\* or a handler call, the registry lock before the lookup or the insert.
WaitsFor(t, u) ==
    \/ pc[t] \in {"creating", "sending"} /\ dsLock = Some(u)
    \/ /\ t \in Callers /\ pc[t] = "ready" /\ hnd[t].t = "Some"
       /\ [convo |-> hnd[t].v, by |-> u] \in convoLock
    \/ /\ t \in Receivers
       /\ \/ pc[t] = "found"
          \/ pc[t] = "calling" /\ Len(cur[t].calls) < Len(handlers[AddrA])
       /\ [convo |-> cur[t].convo.v, by |-> u] \in convoLock
    \/ t \in Receivers /\ pc[t] \in {"got", "insert"} /\ stateLock = Some(u)

\* Some threads wait on each other in a cycle.
WaitCycle ==
    \E t \in Threads, u \in Threads, v \in Threads :
        \/ WaitsFor(t, t)
        \/ WaitsFor(t, u) /\ WaitsFor(u, t)
        \/ WaitsFor(t, u) /\ WaitsFor(u, v) /\ WaitsFor(v, t)

=============================================================================
